---- MODULE Spec2Model ----
(***************************************************************************)
(* Model of the trading-strategy repository's analysis core.               *)
(*                                                                         *)
(* Part 1: src/src/analysis/address_analysis.py, class AddressAnalysis.    *)
(* A trade list is built record by record (the records a fetch returned),  *)
(* and the analyzer's public operations are applied to it.  Profits are    *)
(* integers and all arithmetic is exact: a quotient is kept as a pair      *)
(* (num, den), the Sharpe ratio as the exact real it denotes (see          *)
(* _calculate_sharpe_ratio below), and a numpy division by zero yields     *)
(* +inf, -inf or nan as IEEE-754 does.                                     *)
(***************************************************************************)
EXTENDS Integers, Sequences, FiniteSets, TLC

VARIABLES trades, ret, last, orderbook, klines, markets, fills, df, files, saved,
          feed, client

\* The state of the address analysis, and that of the other parts.
addressVars == <<trades, last>>

marketVars == <<orderbook, klines, markets>>

traderVars == <<fills, df>>

storeVars == <<files, saved>>

clientVars == <<feed, client>>

vars == <<trades, ret, last, orderbook, klines, markets, fills, df, files, saved,
          feed, client>>

(***************************************************************************)
(* Bounds of the model.                                                    *)
(***************************************************************************)
MaxTrades == 3

MaxLevels == 2

MaxKlines == 26

MaxChanges == 3

MaxMarkets == 2

MaxFills == 3

MaxRows == 3

(***************************************************************************)
(* Trade records.  A record of the list is either a mapping (a dict) or    *)
(* some other JSON value (isMapping = FALSE), on which .get() raises       *)
(* AttributeError.  address = "" stands for a missing, None or empty       *)
(* address (all falsy, none equal to a queried address).  profitTag tells  *)
(* whether the 'profit' key is absent ("missing"), a number ("num") or a   *)
(* non-numeric value such as a string ("str"); timestampTag likewise.      *)
(***************************************************************************)
Trade(addr, ptag, p, ttag, sym) ==
    [isMapping |-> TRUE, address |-> addr, profitTag |-> ptag, profit |-> p,
     timestampTag |-> ttag, timestamp |-> 7200000, symbol |-> sym]

NotAMapping ==
    [isMapping |-> FALSE, address |-> "", profitTag |-> "missing", profit |-> 0,
     timestampTag |-> "num", timestamp |-> 0, symbol |-> ""]

Addresses == {"A", "B"}

Profits == {-5, 0, 10, 20}

\* The records a fetch may deliver.
TradeKinds ==
    {Trade(a, "num", p, "num", "BTC") : a \in Addresses, p \in Profits}
    \cup {Trade(a, "missing", 0, "num", "BTC") : a \in Addresses}
    \cup {Trade(a, "str", 0, "num", "BTC") : a \in Addresses}
    \cup {Trade(a, "num", 10, "str", "BTC") : a \in Addresses}
    \cup {Trade("", "num", 10, "num", "BTC"), NotAMapping}

\* The addresses a caller asks about: "C" never trades.
AddressArgs == Addresses \cup {"C"}

(***************************************************************************)
(* Helpers on sequences.                                                   *)
(***************************************************************************)
RECURSIVE SumSeq(_)
SumSeq(s) == IF s = <<>> THEN 0 ELSE Head(s) + SumSeq(Tail(s))

RECURSIVE MaxSeq(_)
MaxSeq(s) ==
    IF Len(s) = 1 THEN s[1]
    ELSE LET m == MaxSeq(Tail(s)) IN IF Head(s) >= m THEN Head(s) ELSE m

RECURSIVE MinSeq(_)
MinSeq(s) ==
    IF Len(s) = 1 THEN s[1]
    ELSE LET m == MinSeq(Tail(s)) IN IF Head(s) <= m THEN Head(s) ELSE m

Abs(x) == IF x < 0 THEN -x ELSE x

Sign(x) == IF x > 0 THEN 1 ELSE IF x < 0 THEN -1 ELSE 0

\* t.get('profit', 0)
get_profit(t) == IF t.profitTag = "missing" THEN 0 ELSE t.profit

\* [t.get('profit', 0) for t in ts]
ProfitsOf(ts) == [i \in 1..Len(ts) |-> get_profit(ts[i])]

\* The empty mapping {} .
EmptyResult == [empty |-> TRUE]

(***************************************************************************)
(* _calculate_sharpe_ratio.  With n = len(returns), S = sum(returns) and   *)
(* Q = sum of squares, the code's value is                                 *)
(*    mean(r - 0.02/252) / std(r - 0.02/252) * sqrt(252)                   *)
(*  = ((S/n) - 1/RiskFreeInv) / (sqrt(n*Q - S*S)/n) * sqrt(252)            *)
(*  = (RiskFreeInv*S - n) / sqrt(n*Q - S*S) * (sqrt(252)/RiskFreeInv)      *)
(* (np.std is the population deviation).  The value is kept as the record  *)
(* [kind, s |-> S, n |-> n, rad |-> n*Q - S*S]: kind "fin" denotes         *)
(* (RiskFreeInv*s - n)/sqrt(rad) times the positive constant               *)
(* sqrt(252)/RiskFreeInv; a zero deviation makes numpy return +inf, -inf   *)
(* or nan (a warning, not an exception).  0.0 is [s = 0, n = 0, rad = 1].  *)
(***************************************************************************)
\* 1 / (risk_free_rate/252) with risk_free_rate = 0.02
RiskFreeInv == 12600

SharpeZero == [kind |-> "fin", s |-> 0, n |-> 0, rad |-> 1]

SharpeNum(x) == RiskFreeInv * x.s - x.n

\* Mutant: the return of 0.0 for fewer than two returns is missing.
_calculate_sharpe_ratio_NoShortGuard(returns) ==
    IF returns = <<>> THEN SharpeZero
    ELSE LET n == Len(returns)
             S == SumSeq(returns)
             Q == SumSeq([i \in 1..n |-> returns[i] * returns[i]])
             rad == n * Q - S * S
             num == RiskFreeInv * S - n
         IN  IF rad # 0 THEN [kind |-> "fin", s |-> S, n |-> n, rad |-> rad]
             ELSE IF num > 0 THEN [kind |-> "inf", s |-> S, n |-> n, rad |-> 0]
             ELSE IF num < 0 THEN [kind |-> "-inf", s |-> S, n |-> n, rad |-> 0]
             ELSE [kind |-> "nan", s |-> S, n |-> n, rad |-> 0]

_calculate_sharpe_ratio(returns) ==
    IF returns = <<>> THEN SharpeZero
    ELSE IF Len(returns) < 2 THEN SharpeZero
    ELSE LET n == Len(returns)
             S == SumSeq(returns)
             Q == SumSeq([i \in 1..n |-> returns[i] * returns[i]])
             rad == n * Q - S * S
             num == RiskFreeInv * S - n
         IN  IF rad # 0 THEN [kind |-> "fin", s |-> S, n |-> n, rad |-> rad]
             ELSE IF num > 0 THEN [kind |-> "inf", s |-> S, n |-> n, rad |-> 0]
             ELSE IF num < 0 THEN [kind |-> "-inf", s |-> S, n |-> n, rad |-> 0]
             ELSE [kind |-> "nan", s |-> S, n |-> n, rad |-> 0]

\* Sign of c2*R^2 + c1*R + c0 for R = RiskFreeInv, without forming the sum
\* (it does not fit TLC's 32-bit integers): carry c0 and c1 into base-R digits.
SignPoly(c2, c1, c0) ==
    LET q0 == c0 \div RiskFreeInv
        r0 == c0 % RiskFreeInv
        d1 == c1 + q0
        q1 == d1 \div RiskFreeInv
        r1 == d1 % RiskFreeInv
        d2 == c2 + q1
    IN  IF d2 # 0 THEN Sign(d2) ELSE IF r1 # 0 \/ r0 # 0 THEN 1 ELSE 0

\* Sign of a^2 - b^2 for two finite Sharpe values a and b, that is of
\* SharpeNum(a)^2 * b.rad - SharpeNum(b)^2 * a.rad.
SignSquares(a, b) ==
    SignPoly(a.s * a.s * b.rad - b.s * b.s * a.rad,
             2 * (b.s * b.n * a.rad - a.s * a.n * b.rad),
             a.n * a.n * b.rad - b.n * b.n * a.rad)

\* a < b on floats: every comparison with nan is False.
SharpeLess(a, b) ==
    IF a.kind = "nan" \/ b.kind = "nan" THEN FALSE
    ELSE IF a.kind = "inf" \/ b.kind = "-inf" THEN FALSE
    ELSE IF a.kind = "-inf" \/ b.kind = "inf" THEN TRUE
    ELSE LET sa == Sign(SharpeNum(a))
             sb == Sign(SharpeNum(b))
         IN  IF sa # sb THEN sa < sb
             ELSE IF sa = 0 THEN FALSE
             ELSE IF sa > 0 THEN SignSquares(a, b) < 0
             ELSE SignSquares(a, b) > 0

\* a == b on floats.
SharpeEq(a, b) ==
    /\ a.kind # "nan" /\ b.kind # "nan"
    /\ ~SharpeLess(a, b) /\ ~SharpeLess(b, a)

\* a >= b on floats.
SharpeGE(a, b) == a.kind # "nan" /\ b.kind # "nan" /\ ~SharpeLess(a, b)

(***************************************************************************)
(* _calculate_max_drawdown: np.cumsum, np.maximum.accumulate, difference,  *)
(* np.max.                                                                 *)
(***************************************************************************)
\* Mutant: the cumulative sum is forgotten, drawdown is taken on the returns.
cumsum_NoSum(returns) == returns

cumsum(returns) ==
    [i \in 1..Len(returns) |-> SumSeq(SubSeq(returns, 1, i))]

\* Mutant: the overall peak instead of the running peak.
maximum_accumulate_Global(c) == [i \in 1..Len(c) |-> MaxSeq(c)]

maximum_accumulate(c) ==
    [i \in 1..Len(c) |-> MaxSeq(SubSeq(c, 1, i))]

_calculate_max_drawdown(returns) ==
    IF returns = <<>> THEN 0
    ELSE LET cumulative == cumsum(returns)
             running_max == maximum_accumulate(cumulative)
             drawdown == [i \in 1..Len(returns) |-> running_max[i] - cumulative[i]]
         IN  IF Len(drawdown) > 0 THEN MaxSeq(drawdown) ELSE 0

(***************************************************************************)
(* _analyze_time_distribution: its own try/except turns a timestamp that   *)
(* cannot be divided by 1000 into the empty mapping.  The host's zone is   *)
(* taken to be UTC.                                                        *)
(***************************************************************************)
\* t.get('timestamp', 0) -> datetime.fromtimestamp(ms/1000).hour
HourOf(t) == (t.timestamp \div 3600000) % 24

CountOf(s, v) == Cardinality({i \in 1..Len(s) : s[i] = v})

\* None, as most_active_hour reports an empty series
NoHour == -1

_analyze_time_distribution(ts) ==
    IF \E i \in 1..Len(ts) : ts[i].timestampTag = "str" THEN EmptyResult
    ELSE LET hours == [i \in 1..Len(ts) |-> HourOf(ts[i])]
             \* value_counts(): hours by descending count; index[0] is the top one
             top == CHOOSE i \in 1..Len(hours) :
                       /\ \A j \in 1..Len(hours) :
                             CountOf(hours, hours[i]) >= CountOf(hours, hours[j])
                       /\ \A j \in 1..(i - 1) :
                             CountOf(hours, hours[j]) < CountOf(hours, hours[i])
         IN  [most_active_hour |-> IF hours = <<>> THEN NoHour ELSE hours[top]]

(***************************************************************************)
(* _analyze_symbol_distribution: per symbol count and summed profit, in    *)
(* first-seen order (a dict keeps insertion order); max() returns the      *)
(* first maximal item.                                                     *)
(***************************************************************************)
RECURSIVE SymbolsSeen(_)
SymbolsSeen(ts) ==
    IF ts = <<>> THEN <<>>
    ELSE LET before == SymbolsSeen(SubSeq(ts, 1, Len(ts) - 1))
             symbol == ts[Len(ts)].symbol
         IN  IF symbol = "" \/ \E i \in 1..Len(before) : before[i] = symbol
             THEN before
             ELSE Append(before, symbol)

SymbolCount(ts, symbol) == Cardinality({i \in 1..Len(ts) : ts[i].symbol = symbol})

SymbolProfit(ts, symbol) ==
    SumSeq(ProfitsOf(SelectSeq(ts, LAMBDA t : t.symbol = symbol)))

\* Mutant: the last of the items with the greatest key.
FirstMax_Last(keys) ==
    CHOOSE i \in 1..Len(keys) :
        /\ \A j \in 1..Len(keys) : keys[j] <= keys[i]
        /\ \A j \in (i + 1)..Len(keys) : keys[j] < keys[i]

\* max(items, key=...): the first item whose key no other item exceeds
FirstMax(keys) ==
    CHOOSE i \in 1..Len(keys) :
        /\ \A j \in 1..Len(keys) : keys[j] <= keys[i]
        /\ \A j \in 1..(i - 1) : keys[j] < keys[i]

_analyze_symbol_distribution(ts) ==
    LET symbols == SymbolsSeen(ts)
    IN  IF symbols = <<>> THEN EmptyResult
        ELSE LET counts == [i \in 1..Len(symbols) |-> SymbolCount(ts, symbols[i])]
                 sums == [i \in 1..Len(symbols) |-> SymbolProfit(ts, symbols[i])]
             IN  [most_traded_symbol |-> symbols[FirstMax(counts)],
                  most_profitable_symbol |-> symbols[FirstMax(sums)]]

(***************************************************************************)
(* Exceptions.  The outcome of a call or of a try body is a record         *)
(* [exc, value]: exc = "" for a normal return of value, otherwise the      *)
(* class of the exception that leaves it.                                  *)
(***************************************************************************)
Returns(v) == [exc |-> "", value |-> v]

Raises(e) == [exc |-> e, value |-> EmptyResult]

\* The exception classes the modelled records can provoke, all of them
\* subclasses of Exception.
Exceptions == {"AttributeError", "TypeError"}

(***************************************************************************)
(* analyze_trades(trades, address).                                        *)
(***************************************************************************)
\* Mutant: the analysis is taken of the whole list.
AddressTrades_All(ts, address) == ts

\* [t for t in trades if t.get('address') == address]
AddressTrades(ts, address) == SelectSeq(ts, LAMBDA t : t.address = address)

\* Mutant: the early return for an address without trades is missing.
NoTrades_Never(address_trades) == FALSE

\* if not address_trades
NoTrades(address_trades) == address_trades = <<>>

\* [t for t in address_trades if t.get('profit', 0) > 0]
WinningTrades(address_trades) == SelectSeq(address_trades, LAMBDA t : get_profit(t) > 0)

\* [t for t in address_trades if t.get('profit', 0) < 0]
LosingTrades(address_trades) == SelectSeq(address_trades, LAMBDA t : get_profit(t) < 0)

\* Mutant: break-even trades are left out of the count.
TotalTrades_NoBreakeven(address_trades) ==
    Len(WinningTrades(address_trades)) + Len(LosingTrades(address_trades))

\* len(address_trades)
TotalTrades(address_trades) == Len(address_trades)

\* len(winning_trades) / total_trades if total_trades > 0 else 0
WinRate(winning_trades, total_trades) ==
    IF total_trades > 0 THEN [num |-> Len(winning_trades), den |-> total_trades]
    ELSE [num |-> 0, den |-> 1]

\* total / len(ts) if ts else 0
Average(total, ts) ==
    IF ts # <<>> THEN [num |-> total, den |-> Len(ts)] ELSE [num |-> 0, den |-> 1]

\* Mutant: infinity only when there is a profit to divide; 0 otherwise.
ProfitFactor_ZeroOverZero(total_profit, total_loss) ==
    IF total_loss # 0
    THEN [inf |-> FALSE, num |-> Abs(total_profit), den |-> Abs(total_loss)]
    ELSE IF total_profit > 0 THEN [inf |-> TRUE, num |-> 0, den |-> 0]
    ELSE [inf |-> FALSE, num |-> 0, den |-> 1]

\* abs(total_profit / total_loss) if total_loss != 0 else float('inf')
ProfitFactor(total_profit, total_loss) ==
    IF total_loss # 0
    THEN [inf |-> FALSE, num |-> Abs(total_profit), den |-> Abs(total_loss)]
    ELSE [inf |-> TRUE, num |-> 0, den |-> 0]

\* The try block, lines 27-77.  .get on a record that is no mapping raises
\* AttributeError in the filter of line 28; comparing a non-numeric profit
\* with 0 raises TypeError in line 35.
AnalyzeTradesBody(ts, address) ==
    IF \E i \in 1..Len(ts) : ~ts[i].isMapping THEN Raises("AttributeError")
    ELSE LET address_trades == AddressTrades(ts, address)
         IN  IF NoTrades(address_trades) THEN Returns(EmptyResult)
             ELSE IF \E i \in 1..Len(address_trades) : address_trades[i].profitTag = "str"
             THEN Raises("TypeError")
             ELSE LET total_trades == TotalTrades(address_trades)
                      winning_trades == WinningTrades(address_trades)
                      losing_trades == LosingTrades(address_trades)
                      total_profit == SumSeq(ProfitsOf(winning_trades))
                      total_loss == SumSeq(ProfitsOf(losing_trades))
                      returns == ProfitsOf(address_trades)
                  IN  Returns(
                      [address |-> address,
                       total_trades |-> total_trades,
                       win_rate |-> WinRate(winning_trades, total_trades),
                       total_profit |-> total_profit,
                       total_loss |-> total_loss,
                       avg_profit |-> Average(total_profit, winning_trades),
                       avg_loss |-> Average(total_loss, losing_trades),
                       max_profit |-> IF winning_trades = <<>> THEN 0
                                      ELSE MaxSeq(ProfitsOf(winning_trades)),
                       max_loss |-> IF losing_trades = <<>> THEN 0
                                    ELSE MinSeq(ProfitsOf(losing_trades)),
                       profit_factor |-> ProfitFactor(total_profit, total_loss),
                       sharpe_ratio |-> _calculate_sharpe_ratio(returns),
                       max_drawdown |-> _calculate_max_drawdown(returns),
                       time_distribution |-> _analyze_time_distribution(address_trades),
                       symbol_distribution |-> _analyze_symbol_distribution(address_trades)])

\* Mutant: the handler names one class only (except TypeError).
AnalyzeTradesCatches_TypeErrorOnly(e) == e = "TypeError"

\* Mutant: analyze_trades without its handler.
AnalyzeTradesCatches_Nothing(e) == FALSE

\* `except Exception as e` of line 79: the classes the handler catches.
AnalyzeTradesCatches(e) == e \in Exceptions

analyze_trades(ts, address) ==
    LET body == AnalyzeTradesBody(ts, address)
    IN  IF body.exc # "" /\ AnalyzeTradesCatches(body.exc)
        THEN Returns(EmptyResult)
        ELSE body

(***************************************************************************)
(* find_top_traders(trades, min_trades).  The addresses are collected in a *)
(* set, whose iteration order is not the list's order (string hashing):    *)
(* `order` is the order in which the loop of line 207 visits them.         *)
(***************************************************************************)
\* set(t.get('address') for t in trades if t.get('address'))
AddressSet(ts) == {ts[i].address : i \in 1..Len(ts)} \ {""}

\* The orders in which a set may be iterated.
IterationOrders(S) ==
    {o \in [1..Cardinality(S) -> S] : \A i, j \in DOMAIN o : i # j => o[i] # o[j]}

\* Mutant: strictly more than min_trades.
Qualifies_Strict(result, min_trades) ==
    result # EmptyResult /\ result.total_trades > min_trades

\* result and result['total_trades'] >= min_trades
Qualifies(result, min_trades) ==
    result # EmptyResult /\ result.total_trades >= min_trades

\* The loop of lines 206-210.
RECURSIVE CollectResults(_, _, _)
CollectResults(ts, order, min_trades) ==
    IF order = <<>> THEN <<>>
    ELSE LET result == analyze_trades(ts, Head(order)).value
             rest == CollectResults(ts, Tail(order), min_trades)
         IN  IF Qualifies(result, min_trades) THEN <<result>> \o rest ELSE rest

\* Mutant: reverse=True is forgotten, the sort is ascending.
RECURSIVE InsertSorted_Ascending(_, _)
InsertSorted_Ascending(sorted, x) ==
    IF sorted = <<>> THEN <<x>>
    ELSE IF SharpeLess(x.sharpe_ratio, Head(sorted).sharpe_ratio)
         THEN <<x>> \o sorted
         ELSE <<Head(sorted)>> \o InsertSorted_Ascending(Tail(sorted), x)

\* One step of the stable descending sort: x goes before the first element
\* whose key is smaller than x's, and after every element that came before.
RECURSIVE InsertSorted(_, _)
InsertSorted(sorted, x) ==
    IF sorted = <<>> THEN <<x>>
    ELSE IF SharpeLess(Head(sorted).sharpe_ratio, x.sharpe_ratio)
         THEN <<x>> \o sorted
         ELSE <<Head(sorted)>> \o InsertSorted(Tail(sorted), x)

\* trader_results.sort(key=lambda x: x['sharpe_ratio'], reverse=True)
RECURSIVE SortBySharpe(_)
SortBySharpe(results) ==
    IF results = <<>> THEN <<>>
    ELSE InsertSorted(SortBySharpe(SubSeq(results, 1, Len(results) - 1)),
                      results[Len(results)])

\* The try block, lines 202-215: .get raises in line 203 on a record that is
\* no mapping, and an exception leaving analyze_trades leaves the loop.
FindTopTradersBody(ts, min_trades, order) ==
    IF \E i \in 1..Len(ts) : ~ts[i].isMapping THEN Raises("AttributeError")
    ELSE IF \E k \in 1..Len(order) : analyze_trades(ts, order[k]).exc # ""
    THEN Raises((analyze_trades(ts,
                    order[CHOOSE k \in 1..Len(order) :
                             /\ analyze_trades(ts, order[k]).exc # ""
                             /\ \A j \in 1..(k - 1) :
                                   analyze_trades(ts, order[j]).exc = ""])).exc)
    ELSE Returns(SortBySharpe(CollectResults(ts, order, min_trades)))

\* `except Exception as e` of line 217.
FindTopTradersCatches(e) == e \in Exceptions

find_top_traders(ts, min_trades, order) ==
    LET body == FindTopTradersBody(ts, min_trades, order)
    IN  IF body.exc # "" /\ FindTopTradersCatches(body.exc)
        THEN Returns(<<>>)
        ELSE [exc |-> body.exc, value |-> IF body.exc = "" THEN body.value ELSE <<>>]

(***************************************************************************)
(* What a call leaves of the list it was given.  analyze_trades builds new *)
(* lists from its argument (address_trades, winning_trades, ...) and       *)
(* assigns to none of its elements; the analyzer itself has no attribute.  *)
(***************************************************************************)
TradesArgumentAfter_FilterInPlace(ts, address) == AddressTrades(ts, address)

TradesArgumentAfter(ts, address) == ts

(***************************************************************************)
(* The state machine: the trade list fetched so far and the call in        *)
(* progress.  The analyzer is synchronous: a call is made on the list as   *)
(* it stands, its value is held in ret until the caller takes it, and only *)
(* then is the list extended or another call made.                         *)
(***************************************************************************)
NoCall == [op |-> "none"]

\* min_trades as passed by callers; DefaultMinTrades is the signature's default.
DefaultMinTrades == 10

MinTradesArgs == (1..MaxTrades) \cup {DefaultMinTrades}

\* A data directory without any file.
NoFiles == <<>>

\* get_orderbook's fallback, and the book of a market nobody quotes.
EmptyOrderbook == [hasKeys |-> TRUE, bids |-> <<>>, asks |-> <<>>]

\* The previous call and the list it was made on, where a run keeps them.
NoLast == [call |-> NoCall, trades |-> <<>>]

\* BackpackClient.__init__: no request has been sent, last_request_time is 0
\* and the clock (time.time(), here in milliseconds) shows some later time.
StartMs == 172800000

NoRequest == -1

NewClient ==
    [now |-> StartMs, last_request_time |-> 0, last_sent |-> NoRequest,
     gap |-> NoRequest]

Init ==
    /\ trades = <<>>
    /\ ret = NoCall
    /\ last = NoLast
    /\ orderbook = EmptyOrderbook
    /\ klines = <<>>
    /\ markets = <<>>
    /\ fills = <<>>
    /\ df = <<>>
    /\ files = NoFiles
    /\ saved = NoFiles
    /\ feed = <<>>
    /\ client = NewClient

\* A fetch delivers one more record.
FetchTrade(t) ==
    /\ ret = NoCall
    /\ Len(trades) < MaxTrades
    /\ trades' = Append(trades, t)
    /\ UNCHANGED <<ret, last, marketVars, traderVars, storeVars, clientVars>>

CallAnalyzeTrades(address) ==
    /\ ret = NoCall
    /\ ret' = [op |-> "analyze_trades", address |-> address,
               exc |-> analyze_trades(trades, address).exc,
               value |-> analyze_trades(trades, address).value]
    /\ trades' = TradesArgumentAfter(trades, address)
    /\ UNCHANGED <<last, marketVars, traderVars, storeVars, clientVars>>

CallFindTopTraders(min_trades, order) ==
    /\ ret = NoCall
    /\ ret' = [op |-> "find_top_traders", min_trades |-> min_trades,
               exc |-> find_top_traders(trades, min_trades, order).exc,
               value |-> find_top_traders(trades, min_trades, order).value]
    /\ UNCHANGED <<trades, last, marketVars, traderVars, storeVars, clientVars>>

\* _calculate_max_drawdown applied to the profits recorded for an address.
CallCalculateMaxDrawdown(address) ==
    /\ ret = NoCall
    /\ \A i \in 1..Len(trades) :
          trades[i].address = address => trades[i].profitTag # "str"
    /\ ret' = [op |-> "_calculate_max_drawdown",
               returns |-> ProfitsOf(AddressTrades(trades, address)),
               value |-> _calculate_max_drawdown(ProfitsOf(AddressTrades(trades, address)))]
    /\ UNCHANGED <<trades, last, marketVars, traderVars, storeVars, clientVars>>

\* The caller takes the returned value.
Return ==
    /\ ret # NoCall
    /\ ret' = NoCall
    /\ UNCHANGED <<trades, last, marketVars, traderVars, storeVars, clientVars>>

Next ==
    \/ \E t \in TradeKinds : FetchTrade(t)
    \/ \E address \in AddressArgs : CallAnalyzeTrades(address)
    \/ \E min_trades \in MinTradesArgs :
          \E order \in IterationOrders(AddressSet(trades)) :
             CallFindTopTraders(min_trades, order)
    \/ \E address \in AddressArgs : CallCalculateMaxDrawdown(address)
    \/ Return

Spec == Init /\ [][Next]_vars

(***************************************************************************)
(* Repeated calls: the same machine, keeping the previous analyze_trades   *)
(* call and the list it was made on until the list is extended.            *)
(***************************************************************************)
FetchTradeForget(t) ==
    /\ ret = NoCall
    /\ Len(trades) < MaxTrades
    /\ trades' = Append(trades, t)
    /\ last' = NoLast
    /\ UNCHANGED <<ret, marketVars, traderVars, storeVars, clientVars>>

ReturnRemember ==
    /\ ret # NoCall
    /\ last' = [call |-> ret, trades |-> trades]
    /\ ret' = NoCall
    /\ UNCHANGED <<trades, marketVars, traderVars, storeVars, clientVars>>

NextTwice ==
    \/ \E t \in TradeKinds : FetchTradeForget(t)
    \/ \E address \in AddressArgs : CallAnalyzeTrades(address)
    \/ ReturnRemember

SpecTwice == Init /\ [][NextTwice]_vars

(***************************************************************************)
(* What the claims speak of, read off the trade list itself.               *)
(***************************************************************************)
AllMappings == \A i \in 1..Len(trades) : trades[i].isMapping

\* The positions of an address's trades.
Mine(a) == {i \in 1..Len(trades) : trades[i].isMapping /\ trades[i].address = a}

\* The addresses present in the list.
Present == {trades[i].address : i \in {j \in 1..Len(trades) : trades[j].isMapping}} \ {""}

NumericProfit(i) == trades[i].profitTag \in {"num", "missing"}

\* The profit of the record at position i, a missing one counting as 0.
P(i) == IF trades[i].profitTag = "num" THEN trades[i].profit ELSE 0

BadProfit(a) == \E i \in Mine(a) : trades[i].profitTag = "str"

BadTimestamp(a) == \E i \in Mine(a) : trades[i].timestampTag = "str"

\* The positions of a's trades in list order.
Positions(a) ==
    SelectSeq([i \in 1..Len(trades) |-> i], LAMBDA i : i \in Mine(a))

\* Cumulative profit of a after its k-th trade.
RECURSIVE CumulativeAt(_, _)
CumulativeAt(a, k) ==
    IF k = 0 THEN 0 ELSE CumulativeAt(a, k - 1) + P(Positions(a)[k])

MaxOf(S) == CHOOSE m \in S : \A x \in S : x <= m

PeakAt(a, k) == MaxOf({CumulativeAt(a, j) : j \in 1..k})

AnalyzeCalled == ret.op = "analyze_trades"

\* analyze_trades returned a non-empty result.
HasResult == AnalyzeCalled /\ ret.exc = "" /\ ret.value # EmptyResult

FindCalled == ret.op = "find_top_traders"

ReturnedAddresses == {ret.value[k].address : k \in 1..Len(ret.value)}

\* The position at which an address first appears in the list.
FirstIndex(a) == CHOOSE i \in Mine(a) : \A j \in Mine(a) : i <= j

(***************************************************************************)
(* C1: whenever analyze_trades returns a non-empty result, win_rate lies   *)
(* in [0,1] and total_trades is the number of the address's trades with    *)
(* profit > 0, plus those with profit < 0, plus those with profit == 0, a  *)
(* missing profit counting as 0.                                           *)
(***************************************************************************)
C1_WinRateAndPartition ==
    HasResult =>
        LET mine == Mine(ret.address)
            winning == {i \in mine : NumericProfit(i) /\ P(i) > 0}
            losing == {i \in mine : NumericProfit(i) /\ P(i) < 0}
            breakeven == {i \in mine : NumericProfit(i) /\ P(i) = 0}
        IN  /\ ret.value.win_rate.den > 0
            /\ 0 <= ret.value.win_rate.num
            /\ ret.value.win_rate.num <= ret.value.win_rate.den
            /\ ret.value.total_trades =
                  Cardinality(winning) + Cardinality(losing) + Cardinality(breakeven)

\* A result over a winning, a losing and a break-even (profit missing) trade.
C1_Witness ==
    /\ HasResult
    /\ ret.value.total_trades = 3
    /\ ret.value.win_rate.num = 1
    /\ \E i \in Mine(ret.address) : trades[i].profitTag = "missing"
    /\ \E i \in Mine(ret.address) : P(i) < 0

(***************************************************************************)
(* C2 as claimed: in every non-empty result, profit_factor is +infinity    *)
(* if and only if total_loss == 0 and total_profit > 0.                    *)
(***************************************************************************)
C2_InfIffNoLossAndProfit ==
    HasResult =>
        (ret.value.profit_factor.inf <=>
            (ret.value.total_loss = 0 /\ ret.value.total_profit > 0))

(***************************************************************************)
(* C2 amended: in every non-empty result, profit_factor is +infinity if    *)
(* and only if total_loss == 0, that is if and only if the address has no  *)
(* losing trade, whatever total_profit is (also when it is 0).             *)
(***************************************************************************)
C2_InfIffNoLoss ==
    HasResult =>
        /\ ret.value.profit_factor.inf <=> ret.value.total_loss = 0
        /\ ret.value.profit_factor.inf <=>
              ~(\E i \in Mine(ret.address) : P(i) < 0)

\* Only break-even trades: no loss, no profit, and the factor is infinite.
C2_Witness ==
    /\ HasResult
    /\ ret.value.total_loss = 0
    /\ ret.value.total_profit = 0
    /\ ret.value.profit_factor.inf

(***************************************************************************)
(* C3: max_drawdown is the maximum, over the positions of the address's    *)
(* trades in list order, of the largest cumulative profit so far minus the *)
(* cumulative profit there; for the profits 10, -5, 20 it is 5.            *)
(***************************************************************************)
C3_MaxDrawdownIsPeakToTrough ==
    HasResult =>
        LET a == ret.address
            n == Len(Positions(a))
        IN  /\ ret.value.max_drawdown =
                  MaxOf({PeakAt(a, k) - CumulativeAt(a, k) : k \in 1..n})
            /\ [k \in 1..n |-> P(Positions(a)[k])] = <<10, -5, 20>>
                  => ret.value.max_drawdown = 5

\* The scenario of the specification: profits 10, -5, 20.
C3_Witness ==
    /\ HasResult
    /\ [k \in 1..Len(Positions(ret.address)) |-> P(Positions(ret.address)[k])]
          = <<10, -5, 20>>
    /\ ret.value.max_drawdown = 5

(***************************************************************************)
(* C4: max_drawdown is never negative, it is 0 when every profit of the    *)
(* address is >= 0 (the cumulative profit never decreases), and            *)
(* _calculate_max_drawdown gives 0 for an empty list of returns.           *)
(***************************************************************************)
C4_MaxDrawdownNonNegative ==
    /\ HasResult =>
          /\ ret.value.max_drawdown >= 0
          /\ (\A i \in Mine(ret.address) : P(i) >= 0) => ret.value.max_drawdown = 0
    /\ ret.op = "_calculate_max_drawdown" =>
          /\ ret.value >= 0
          /\ (\A k \in 1..Len(ret.returns) : ret.returns[k] >= 0) => ret.value = 0
          /\ ret.returns = <<>> => ret.value = 0

\* A rising cumulative profit that is not constant: the second gain is smaller.
C4_Witness ==
    /\ ret.op = "_calculate_max_drawdown"
    /\ Len(ret.returns) >= 2
    /\ \A k \in 1..Len(ret.returns) : ret.returns[k] >= 0
    /\ ret.returns[1] > ret.returns[2]
    /\ ret.returns[2] > 0
    /\ ret.value = 0

(***************************************************************************)
(* C5 as claimed: find_top_traders returns exactly the distinct non-empty  *)
(* addresses of the list whose trade count is >= min_trades, and every     *)
(* returned result has total_trades >= min_trades.                         *)
(***************************************************************************)
C5_ExactlyTheActiveAddresses ==
    FindCalled =>
        /\ ReturnedAddresses =
              {a \in Present : Cardinality(Mine(a)) >= ret.min_trades}
        /\ \A k \in 1..Len(ret.value) : ret.value[k].total_trades >= ret.min_trades

(***************************************************************************)
(* C5 amended: find_top_traders returns, once each, exactly the non-empty  *)
(* addresses whose trade count is >= min_trades and whose analysis did not *)
(* fail (every record of the list is a mapping and no profit of the        *)
(* address is non-numeric); an address with fewer trades is never          *)
(* returned, and every returned result has total_trades >= min_trades.     *)
(***************************************************************************)
C5_ExactlyTheActiveAnalysed ==
    FindCalled =>
        /\ ReturnedAddresses =
              {a \in Present : /\ Cardinality(Mine(a)) >= ret.min_trades
                               /\ AllMappings
                               /\ ~BadProfit(a)}
        /\ Len(ret.value) = Cardinality(ReturnedAddresses)
        /\ \A k \in 1..Len(ret.value) :
              /\ ret.value[k].total_trades = Cardinality(Mine(ret.value[k].address))
              /\ ret.value[k].total_trades >= ret.min_trades

\* One address reaches min_trades and is returned, another falls one short.
C5_Witness ==
    /\ FindCalled
    /\ ret.min_trades = 2
    /\ \E a \in Present : Cardinality(Mine(a)) = 2 /\ a \in ReturnedAddresses
    /\ \E b \in Present : Cardinality(Mine(b)) = 1 /\ ~BadProfit(b)
                          /\ b \notin ReturnedAddresses

(***************************************************************************)
(* C6: the list find_top_traders returns is sorted by descending           *)
(* sharpe_ratio: each result's ratio is >= the next one's.                 *)
(***************************************************************************)
C6_SortedBySharpeDescending ==
    FindCalled =>
        \A k \in 1..(Len(ret.value) - 1) :
            SharpeGE(ret.value[k].sharpe_ratio, ret.value[k + 1].sharpe_ratio)

\* Two results with different ratios, whichever way the set was iterated.
C6_Witness ==
    /\ FindCalled
    /\ Len(ret.value) = 2
    /\ SharpeLess(ret.value[2].sharpe_ratio, ret.value[1].sharpe_ratio)
    /\ FirstIndex(ret.value[2].address) < FirstIndex(ret.value[1].address)

(***************************************************************************)
(* C7: among returned addresses with equal sharpe_ratio, the output order  *)
(* is the order in which the addresses first appear in the trade list.     *)
(***************************************************************************)
C7_TiesKeepFirstAppearanceOrder ==
    FindCalled =>
        \A i, j \in 1..Len(ret.value) :
            (i < j /\ SharpeEq(ret.value[i].sharpe_ratio, ret.value[j].sharpe_ratio))
                => FirstIndex(ret.value[i].address) < FirstIndex(ret.value[j].address)

(***************************************************************************)
(* C8 as claimed: analyze_trades never raises, and whenever an internal    *)
(* step fails (a record that is no mapping, a non-numeric profit or a      *)
(* non-numeric timestamp of the address) the call returns the empty        *)
(* mapping.                                                                *)
(***************************************************************************)
C8_AnyFailureGivesEmpty ==
    AnalyzeCalled =>
        /\ ret.exc = ""
        /\ (~AllMappings \/ BadProfit(ret.address) \/ BadTimestamp(ret.address))
              => ret.value = EmptyResult

(***************************************************************************)
(* C8 amended: analyze_trades never raises; a record that is no mapping or *)
(* a non-numeric profit of the address makes it return the empty mapping,  *)
(* while a non-numeric timestamp is caught inside                          *)
(* _analyze_time_distribution and leaves a complete result whose           *)
(* time_distribution alone is the empty mapping.                           *)
(***************************************************************************)
C8_NeverRaises ==
    AnalyzeCalled =>
        /\ ret.exc = ""
        /\ (~AllMappings \/ BadProfit(ret.address)) => ret.value = EmptyResult
        /\ (AllMappings /\ ~BadProfit(ret.address) /\ BadTimestamp(ret.address))
              => /\ ret.value # EmptyResult
                 /\ ret.value.time_distribution = EmptyResult
                 /\ ret.value.total_trades = Cardinality(Mine(ret.address))

\* A non-numeric timestamp: the call returns a result, its time part empty.
C8_Witness ==
    /\ HasResult
    /\ BadTimestamp(ret.address)
    /\ ret.value.time_distribution = EmptyResult
    /\ ret.value.total_trades >= 2

C10_NoTradesGivesEmpty ==
    (AnalyzeCalled /\ Mine(ret.address) = {}) =>
        /\ ret.exc = ""
        /\ ret.value = EmptyResult

\* Other addresses trade, all records are mappings, the asked one has none.
C10_Witness ==
    /\ AnalyzeCalled
    /\ AllMappings
    /\ Len(trades) >= 2
    /\ Mine(ret.address) = {}
    /\ ret.exc = ""
    /\ ret.value = EmptyResult

BidPrices == {99, 100}

AskPrices == {101, 102}

Quantities == 0..4

\* What the depth request may come back with: the book (status 200), a
\* JSON object without 'bids' and 'asks' (status 200), another status, or
\* an exception of the HTTP session.
ResponseKinds == {"ok", "no_keys", "http_error", "exception"}

get_orderbook(resp, book) ==
    IF resp = "ok" THEN book
    ELSE IF resp = "no_keys" THEN [hasKeys |-> FALSE, bids |-> <<>>, asks |-> <<>>]
    ELSE EmptyOrderbook

Ratio(n, d) == [num |-> n, den |-> d]

RECURSIVE SumQty(_)
SumQty(levels) ==
    IF levels = <<>> THEN 0 ELSE Head(levels)[2] + SumQty(Tail(levels))

RECURSIVE SumValue(_)
SumValue(levels) ==
    IF levels = <<>> THEN 0
    ELSE Head(levels)[1] * Head(levels)[2] + SumValue(Tail(levels))

Imbalance_NoGuard(bid_volume, ask_volume) ==
    Ratio(bid_volume - ask_volume, bid_volume + ask_volume)

\* (bid_volume - ask_volume) / total_volume if total_volume > 0 else 0
Imbalance(bid_volume, ask_volume) ==
    IF bid_volume + ask_volume > 0
    THEN Ratio(bid_volume - ask_volume, bid_volume + ask_volume)
    ELSE Ratio(0, 1)

DepthOfEmptyBook_ZeroFilled ==
    [bid_volume |-> 0, ask_volume |-> 0, bid_value |-> 0, ask_value |-> 0,
     spread |-> 0, spread_percentage |-> Ratio(0, 1), mid_price |-> Ratio(0, 1),
     imbalance |-> Ratio(0, 1)]

\* return {} for a book with an empty side
DepthOfEmptyBook == EmptyResult

AnalyzeMarketDepthBody(ob) ==
    IF ~ob.hasKeys THEN Raises("KeyError")
    ELSE IF ob.bids = <<>> \/ ob.asks = <<>> THEN Returns(DepthOfEmptyBook)
    ELSE
        LET bid_volume == SumQty(ob.bids)
            ask_volume == SumQty(ob.asks)
            best_bid == ob.bids[1][1]
            best_ask == ob.asks[1][1]
            spread == best_ask - best_bid
        IN  IF best_bid + best_ask = 0 THEN Raises("ZeroDivisionError")
            ELSE Returns(
                [bid_volume |-> bid_volume,
                 ask_volume |-> ask_volume,
                 bid_value |-> SumValue(ob.bids),
                 ask_value |-> SumValue(ob.asks),
                 spread |-> spread,
                 spread_percentage |-> Ratio(spread * 200, best_bid + best_ask),
                 mid_price |-> Ratio(best_bid + best_ask, 2),
                 imbalance |-> Imbalance(bid_volume, ask_volume)])

\* except Exception: return {}
analyze_market_depth(resp, book) ==
    LET body == AnalyzeMarketDepthBody(get_orderbook(resp, book))
    IN  IF body.exc # "" THEN Returns(EmptyResult) ELSE body

AddBid(level) ==
    /\ ret = NoCall
    /\ Len(orderbook.bids) < MaxLevels
    /\ orderbook' = [orderbook EXCEPT !.bids = Append(@, level)]
    /\ UNCHANGED <<ret, addressVars, klines, markets, traderVars, storeVars, clientVars>>

AddAsk(level) ==
    /\ ret = NoCall
    /\ Len(orderbook.asks) < MaxLevels
    /\ orderbook' = [orderbook EXCEPT !.asks = Append(@, level)]
    /\ UNCHANGED <<ret, addressVars, klines, markets, traderVars, storeVars, clientVars>>

CallAnalyzeMarketDepth(resp) ==
    /\ ret = NoCall
    /\ ret' = [op |-> "analyze_market_depth",
               fetched |-> get_orderbook(resp, orderbook),
               exc |-> analyze_market_depth(resp, orderbook).exc,
               value |-> analyze_market_depth(resp, orderbook).value]
    /\ UNCHANGED <<orderbook, addressVars, klines, markets, traderVars, storeVars, clientVars>>

NextDepth ==
    \/ \E p \in BidPrices, q \in Quantities : AddBid(<<p, q>>)
    \/ \E p \in AskPrices, q \in Quantities : AddAsk(<<p, q>>)
    \/ \E resp \in ResponseKinds : CallAnalyzeMarketDepth(resp)
    \/ Return

SpecDepth == Init /\ [][NextDepth]_vars

(***************************************************************************)
(* What the depth claims speak of, read off the fetched book.              *)
(***************************************************************************)
DepthCalled == ret.op = "analyze_market_depth"

HasDepth == DepthCalled /\ ret.exc = "" /\ ret.value # EmptyResult

\* The total quantity of the levels of one side.
QtyOf(levels) ==
    LET RECURSIVE Upto(_)
        Upto(k) == IF k = 0 THEN 0 ELSE Upto(k - 1) + levels[k][2]
    IN  Upto(Len(levels))

ExampleBook ==
    [hasKeys |-> TRUE,
     bids |-> << <<100, 2>>, <<99, 3>> >>,
     asks |-> << <<101, 1>>, <<102, 4>> >>]

(***************************************************************************)
(* C12: in every non-empty result of analyze_market_depth, bid_volume and  *)
(* ask_volume are the sums of the level quantities of their side, and      *)
(* imbalance is (bid - ask) / (bid + ask), or 0 when the total volume is   *)
(* 0; it lies in [-1, 1]; the book bids [[100,2],[99,3]], asks             *)
(* [[101,1],[102,4]] gives volumes 5 and 5, spread 1 and imbalance 0.      *)
(***************************************************************************)
C12_VolumesAndImbalance ==
    HasDepth =>
        LET bid == QtyOf(ret.fetched.bids)
            ask == QtyOf(ret.fetched.asks)
            imb == ret.value.imbalance
        IN  /\ ret.value.bid_volume = bid
            /\ ret.value.ask_volume = ask
            /\ imb.den > 0
            /\ bid + ask = 0 => imb.num = 0
            /\ bid + ask > 0 => imb.num * (bid + ask) = (bid - ask) * imb.den
            /\ -imb.den <= imb.num /\ imb.num <= imb.den
            /\ ret.fetched = ExampleBook =>
                  /\ ret.value.bid_volume = 5 /\ ret.value.ask_volume = 5
                  /\ ret.value.spread = 1 /\ imb.num = 0

\* The example book was analysed.
C12_Witness ==
    /\ HasDepth
    /\ ret.fetched = ExampleBook
    /\ ret.value.imbalance.num = 0

(***************************************************************************)
(* C13: whenever the fetched order book has an empty bid side or an empty  *)
(* ask side (the fallback of a failed fetch included), analyze_market_depth*)
(* returns the empty result and does not raise.                            *)
(***************************************************************************)
C13_EmptySideGivesEmpty ==
    (DepthCalled /\ ret.fetched.hasKeys
       /\ (ret.fetched.bids = <<>> \/ ret.fetched.asks = <<>>))
    => (ret.exc = "" /\ ret.value = EmptyResult)

\* A book with bids and no asks was analysed.
C13_Witness ==
    /\ DepthCalled
    /\ ret.fetched.hasKeys
    /\ ret.fetched.bids # <<>> /\ ret.fetched.asks = <<>>
    /\ ret.value = EmptyResult

(***************************************************************************)
(* Part 3: src/src/analysis/market_analysis.py, class MarketAnalysis.      *)
(*                                                                         *)
(* _analyze_price.  A kline carries the numbers astype(float) reads; a     *)
(* float is kept as an exact quotient or as nan (a rolling mean over fewer *)
(* rows than its window, 0/0), and a comparison with nan is false.         *)
(***************************************************************************)
ClosePrices == {3, 4}

Kline(c) == [open |-> c, high |-> c, low |-> c, close |-> c, volume |-> 1]

NaN == [nan |-> TRUE, num |-> 0, den |-> 1]

Real(n, d) == [nan |-> FALSE, num |-> n, den |-> d]

\* x > y and x < y on floats (denominators are positive).
Gt(x, y) == ~x.nan /\ ~y.nan /\ x.num * y.den > y.num * x.den

Lt(x, y) == Gt(y, x)

Closes(ks) == [i \in 1..Len(ks) |-> ks[i].close]

\* The last w entries of a series.
LastWindow(xs, w) == SubSeq(xs, Len(xs) - w + 1, Len(xs))

\* The mean of the rows there are (min_periods = 1), which pandas does not take.
RollingMeanLast_MinPeriods1(xs, w) ==
    IF Len(xs) < w THEN Real(SumSeq(xs), Len(xs))
    ELSE Real(SumSeq(LastWindow(xs, w)), w)

\* xs.rolling(window=w).mean().iloc[-1]
RollingMeanLast(xs, w) ==
    IF Len(xs) < w THEN NaN ELSE Real(SumSeq(LastWindow(xs, w)), w)

\* delta.where(delta > 0, 0): the first delta is nan and becomes 0.
Gains(xs) ==
    [i \in 1..Len(xs) |->
        IF i > 1 /\ xs[i] - xs[i - 1] > 0 THEN xs[i] - xs[i - 1] ELSE 0]

\* -delta.where(delta < 0, 0)
Losses(xs) ==
    [i \in 1..Len(xs) |->
        IF i > 1 /\ xs[i] - xs[i - 1] < 0 THEN xs[i - 1] - xs[i] ELSE 0]

\* rs = gain / loss; rsi = 100 - 100 / (1 + rs), with gain = g / 14 and
\* loss = l / 14: x / 0 is inf (rsi 100) and 0 / 0 is nan.
RSIOf(g, l) == IF g + l = 0 THEN NaN ELSE Real(100 * g, g + l)

RSI(xs) ==
    IF Len(xs) < 14 THEN NaN
    ELSE RSIOf(SumSeq(LastWindow(Gains(xs), 14)), SumSeq(LastWindow(Losses(xs), 14)))

Trend_UpFirst(current_price, ma7, ma25, rsi) ==
    IF Gt(current_price, ma7) /\ Gt(ma7, ma25) THEN "up"
    ELSE IF Gt(current_price, ma7) /\ Gt(ma7, ma25) /\ Gt(rsi, Real(70, 1))
    THEN "strong_up"
    ELSE IF Lt(current_price, ma7) /\ Lt(ma7, ma25) THEN "down"
    ELSE IF Lt(current_price, ma7) /\ Lt(ma7, ma25) /\ Lt(rsi, Real(30, 1))
    THEN "strong_down"
    ELSE "neutral"

Trend(current_price, ma7, ma25, rsi) ==
    IF Gt(current_price, ma7) /\ Gt(ma7, ma25) /\ Gt(rsi, Real(70, 1))
    THEN "strong_up"
    ELSE IF Gt(current_price, ma7) /\ Gt(ma7, ma25) THEN "up"
    ELSE IF Lt(current_price, ma7) /\ Lt(ma7, ma25) /\ Lt(rsi, Real(30, 1))
    THEN "strong_down"
    ELSE IF Lt(current_price, ma7) /\ Lt(ma7, ma25) THEN "down"
    ELSE "neutral"

\* Every division by a zero, as if the RSI were computed on Python floats.
PriceDivisionError_AnyZeroDivisor(close) ==
    \/ close[1] = 0
    \/ Len(close) >= 14 /\ SumSeq(LastWindow(Losses(close), 14)) = 0

\* The division that raises: price_change_24h / price_24h_ago on Python
\* floats.  gain / loss is a division of pandas Series and raises nothing.
PriceDivisionError(close) == close[1] = 0

AnalyzePriceBody(ks) ==
    IF ks = <<>> THEN Returns(EmptyResult)
    ELSE
        LET close == Closes(ks)
            current_price == close[Len(close)]
            price_24h_ago == close[1]
            ma7 == RollingMeanLast(close, 7)
            ma25 == RollingMeanLast(close, 25)
            rsi == RSI(close)
        IN  IF PriceDivisionError(close) THEN Raises("ZeroDivisionError")
            ELSE Returns(
                [current_price |-> Real(current_price, 1),
                 price_change_24h |-> current_price - price_24h_ago,
                 price_change_percentage_24h |->
                     Real(100 * (current_price - price_24h_ago), price_24h_ago),
                 high_24h |-> MaxSeq([i \in 1..Len(ks) |-> ks[i].high]),
                 low_24h |-> MinSeq([i \in 1..Len(ks) |-> ks[i].low]),
                 volume_24h |-> SumSeq([i \in 1..Len(ks) |-> ks[i].volume]),
                 ma7 |-> ma7,
                 ma25 |-> ma25,
                 rsi |-> rsi,
                 trend |-> Trend(Real(current_price, 1), ma7, ma25, rsi)])

\* except Exception: return {}
_analyze_price(ks) ==
    LET body == AnalyzePriceBody(ks)
    IN  IF body.exc # "" THEN Returns(EmptyResult) ELSE body

\* The number of places where a series of closes changes value.
Changes(ks) == Cardinality({i \in 2..Len(ks) : ks[i].close # ks[i - 1].close})

\* The exchange delivers one more kline.
AddKline(c) ==
    /\ ret = NoCall
    /\ Len(klines) < MaxKlines
    /\ Changes(Append(klines, Kline(c))) <= MaxChanges
    /\ klines' = Append(klines, Kline(c))
    /\ UNCHANGED <<ret, orderbook, markets, addressVars, traderVars, storeVars, clientVars>>

CallAnalyzePrice ==
    /\ ret = NoCall
    /\ ret' = [op |-> "_analyze_price",
               exc |-> _analyze_price(klines).exc,
               value |-> _analyze_price(klines).value]
    /\ UNCHANGED <<marketVars, addressVars, traderVars, storeVars, clientVars>>

NextPrice ==
    \/ \E c \in ClosePrices : AddKline(c)
    \/ CallAnalyzePrice
    \/ Return

SpecPrice == Init /\ [][NextPrice]_vars

(***************************************************************************)
(* What the trend claim speaks of, read off the returned result.           *)
(***************************************************************************)
PriceCalled == ret.op = "_analyze_price"

HasPrice == PriceCalled /\ ret.exc = "" /\ ret.value # EmptyResult

\* x > y for two floats of the result: false when either is nan.
Above(x, y) ==
    /\ x.nan = FALSE /\ y.nan = FALSE
    /\ x.num * y.den > y.num * x.den

TrendLabels == {"strong_up", "up", "strong_down", "down", "neutral"}

(***************************************************************************)
(* C17: every non-empty result of _analyze_price carries one trend label,  *)
(* decided in this order from its own current_price, ma7, ma25 and rsi:    *)
(* strong_up when price > ma7 > ma25 and rsi > 70, up when price > ma7 >   *)
(* ma25, strong_down when price < ma7 < ma25 and rsi < 30, down when       *)
(* price < ma7 < ma25, neutral otherwise.                                  *)
(***************************************************************************)
C17_TrendDecidedInOrder ==
    HasPrice =>
        LET v == ret.value
            rising == Above(v.current_price, v.ma7) /\ Above(v.ma7, v.ma25)
            falling == Above(v.ma7, v.current_price) /\ Above(v.ma25, v.ma7)
            overbought == Above(v.rsi, [nan |-> FALSE, num |-> 70, den |-> 1])
            oversold == Above([nan |-> FALSE, num |-> 30, den |-> 1], v.rsi)
        IN  /\ v.trend \in TrendLabels
            /\ v.trend = "strong_up" <=> (rising /\ overbought)
            /\ v.trend = "up" <=> (rising /\ ~overbought)
            /\ v.trend = "strong_down" <=> (~rising /\ falling /\ oversold)
            /\ v.trend = "down" <=> (~rising /\ falling /\ ~oversold)
            /\ v.trend = "neutral" <=> (~rising /\ ~falling)

\* price > ma7 > ma25 with an RSI of at most 70: the second label applies.
C17_Witness ==
    /\ HasPrice
    /\ ret.value.trend = "up"
    /\ ret.value.rsi.nan = FALSE

AllClosesEqual == \A i \in 1..Len(klines) : klines[i].close = klines[1].close

C26_ShortSeriesIsNeutral ==
    (HasPrice /\ Len(klines) < 25) =>
        /\ ret.value.ma25.nan
        /\ ret.value.trend = "neutral"

\* Twenty-four klines ending above their seven-row mean: neutral all the same.
C26_Witness ==
    /\ HasPrice
    /\ Len(klines) = 24
    /\ Above(ret.value.current_price, ret.value.ma7)
    /\ ret.value.ma7.nan = FALSE
    /\ ret.value.trend = "neutral"

(***************************************************************************)
(* _analyze_trades, analyze_market and find_active_markets.  A trade of    *)
(* the public feed carries price, quantity, quoteQuantity and isBuyerMaker;*)
(* a record lacking one of these keys makes the DataFrame code raise.  The *)
(* list is newest first, as the exchange delivers it.                      *)
(***************************************************************************)
MarketTrade(p, q, m) ==
    [wellFormed |-> TRUE, price |-> p, quantity |-> q, quoteQuantity |-> p * q,
     isBuyerMaker |-> m]

MalformedMarketTrade ==
    [wellFormed |-> FALSE, price |-> 0, quantity |-> 0, quoteQuantity |-> 0,
     isBuyerMaker |-> FALSE]

MarketTradeKinds ==
    {MarketTrade(500, 1, FALSE), MarketTrade(1000, 1, TRUE), MalformedMarketTrade}

\* The comparison with the two prices taken in the opposite order.
PriceTrend_Swapped(first_price, last_price) ==
    IF last_price = 0
    THEN (IF first_price > 0 THEN 1 ELSE IF first_price < 0 THEN -1 ELSE 0)
    ELSE IF (first_price - last_price) * 1000 > last_price THEN 1
    ELSE IF (first_price - last_price) * 1000 < -last_price THEN -1
    ELSE 0

\* price_change = (last_price - first_price) / first_price against +-0.001;
\* a numpy division by zero gives inf or nan and does not raise.
PriceTrend(first_price, last_price) ==
    IF first_price = 0
    THEN (IF last_price > 0 THEN 1 ELSE IF last_price < 0 THEN -1 ELSE 0)
    ELSE IF (last_price - first_price) * 1000 > first_price THEN 1
    ELSE IF (last_price - first_price) * 1000 < -first_price THEN -1
    ELSE 0

AnalyzeMarketTradesBody(ts) ==
    IF ts = <<>> THEN Returns(EmptyResult)
    ELSE IF \E i \in 1..Len(ts) : ~ts[i].wellFormed THEN Raises("KeyError")
    ELSE
        LET total_trades == Len(ts)
            total_volume == SumSeq([i \in 1..Len(ts) |-> ts[i].quantity])
            total_value == SumSeq([i \in 1..Len(ts) |-> ts[i].quoteQuantity])
            buys == Cardinality({i \in 1..Len(ts) : ~ts[i].isBuyerMaker})
        IN  Returns(
                [total_trades |-> total_trades,
                 total_volume |-> total_volume,
                 total_value |-> total_value,
                 avg_trade_size |-> Ratio(total_volume, total_trades),
                 avg_trade_value |-> Ratio(total_value, total_trades),
                 buy_ratio |-> Ratio(buys, total_trades),
                 price_trend |-> PriceTrend(ts[Len(ts)].price, ts[1].price),
                 \* returns.std() * sqrt(len(df)), kept as the data it is taken of
                 volatility |-> [std_of_pct_change |-> [i \in 1..Len(ts) |-> ts[i].price],
                                 times_sqrt |-> total_trades]])

\* except Exception: return {}
_analyze_trades(ts) ==
    LET body == AnalyzeMarketTradesBody(ts)
    IN  IF body.exc # "" THEN Returns(EmptyResult) ELSE body

\* analyze_market: the three analyses of one market.  The client calls and
\* the analyses catch their own exceptions, so the try block returns.
AnalyzeMarketBody(book, ts, ks) ==
    Returns([market_depth |-> analyze_market_depth("ok", book).value,
             trade_analysis |-> _analyze_trades(ts).value,
             price_analysis |-> _analyze_price(ks).value])

\* Mutant: three empty analyses are handed back as one empty mapping.
analyze_market_EmptyWhenAllEmpty(book, ts, ks) ==
    LET body == AnalyzeMarketBody(book, ts, ks)
    IN  IF body.exc # "" THEN Returns(EmptyResult)
        ELSE IF /\ body.value.market_depth = EmptyResult
                /\ body.value.trade_analysis = EmptyResult
                /\ body.value.price_analysis = EmptyResult
        THEN Returns(EmptyResult)
        ELSE body

analyze_market(book, ts, ks) ==
    LET body == AnalyzeMarketBody(book, ts, ks)
    IN  IF body.exc # "" THEN Returns(EmptyResult) ELSE body

\* trade_analysis.get(key, 0)
GetTotalTrades(trade_analysis) ==
    IF trade_analysis = EmptyResult THEN 0 ELSE trade_analysis.total_trades

GetTotalValue(trade_analysis) ==
    IF trade_analysis = EmptyResult THEN 0 ELSE trade_analysis.total_value

IsActive_Strict(analysis, min_trades, min_volume) ==
    /\ GetTotalTrades(analysis.trade_analysis) > min_trades
    /\ GetTotalValue(analysis.trade_analysis) > min_volume

IsActive(analysis, min_trades, min_volume) ==
    /\ GetTotalTrades(analysis.trade_analysis) >= min_trades
    /\ GetTotalValue(analysis.trade_analysis) >= min_volume

\* The loop over the listed markets: an entry carries its symbol ("" for a
\* missing or empty one) and the trades get_trades returns for it.
RECURSIVE CollectActive(_, _, _, _, _)
CollectActive(ms, book, ks, min_trades, min_volume) ==
    IF ms = <<>> THEN <<>>
    ELSE
        LET market == Head(ms)
            rest == CollectActive(Tail(ms), book, ks, min_trades, min_volume)
            analysis == analyze_market(book, market.trades, ks).value
        IN  IF market.symbol = "" THEN rest
            ELSE IF analysis = EmptyResult THEN rest
            ELSE IF IsActive(analysis, min_trades, min_volume)
            THEN <<[symbol |-> market.symbol, analysis |-> analysis]>> \o rest
            ELSE rest

SortKey(x) == GetTotalValue(x.analysis.trade_analysis)

InsertByValue_BeforeEquals(sorted, x) ==
    LET before == SelectSeq(sorted, LAMBDA y : SortKey(y) > SortKey(x))
        after == SelectSeq(sorted, LAMBDA y : SortKey(y) <= SortKey(x))
    IN  before \o <<x>> \o after

\* list.sort(key=..., reverse=True) is stable: x goes after the entries
\* whose key is at least its own.
InsertByValue(sorted, x) ==
    LET before == SelectSeq(sorted, LAMBDA y : SortKey(y) >= SortKey(x))
        after == SelectSeq(sorted, LAMBDA y : SortKey(y) < SortKey(x))
    IN  before \o <<x>> \o after

RECURSIVE SortByValue(_)
SortByValue(xs) ==
    IF xs = <<>> THEN <<>>
    ELSE InsertByValue(SortByValue(SubSeq(xs, 1, Len(xs) - 1)), xs[Len(xs)])

\* get_markets: the listing on status 200, else [].
get_markets(resp, listing) == IF resp = "ok" THEN listing ELSE <<>>

find_active_markets(resp, listing, book, ks, min_trades, min_volume) ==
    Returns(SortByValue(
        CollectActive(get_markets(resp, listing), book, ks, min_trades, min_volume)))

(***************************************************************************)
(* The state machine of the market scan: the exchange lists markets, each  *)
(* with the trades its feed holds; the order book and the klines are the   *)
(* same for every market of a run.                                         *)
(***************************************************************************)
Symbols == {"", "BTC_USDC", "ETH_USDC"}

\* What get_trades returns for a market: nothing (no trade, or a failed
\* fetch), a list the analysis fails on, and lists of one and two trades
\* worth 500 to 2000.
MarketTradeLists ==
    {<<>>, <<MalformedMarketTrade>>}
    \cup {<<t>> : t \in MarketTradeKinds \ {MalformedMarketTrade}}
    \cup {<<t, u>> : t, u \in MarketTradeKinds \ {MalformedMarketTrade}}

QuotedBook == [hasKeys |-> TRUE, bids |-> << <<100, 2>> >>, asks |-> << <<101, 1>> >>]

\* The thresholds callers pass: none, and values the feeds reach or miss.
MinTradesValues == {0, 1, 2}

MinVolumeValues == {0, 1000, 1500}

InitMarkets ==
    /\ trades = <<>>
    /\ ret = NoCall
    /\ last = NoLast
    /\ markets = <<>>
    /\ orderbook \in {EmptyOrderbook, QuotedBook}
    /\ klines \in {<<>>, <<Kline(3)>>}
    /\ fills = <<>>
    /\ df = <<>>
    /\ files = NoFiles
    /\ saved = NoFiles
    /\ feed = <<>>
    /\ client = NewClient

ListMarket(symbol, ts) ==
    /\ ret = NoCall
    /\ Len(markets) < MaxMarkets
    /\ markets' = Append(markets, [symbol |-> symbol, trades |-> ts])
    /\ UNCHANGED <<ret, orderbook, klines, addressVars, traderVars, storeVars, clientVars>>

CallFindActiveMarkets(resp, min_trades, min_volume) ==
    /\ ret = NoCall
    /\ ret' = [op |-> "find_active_markets",
               min_trades |-> min_trades, min_volume |-> min_volume,
               listing |-> get_markets(resp, markets),
               exc |-> find_active_markets(resp, markets, orderbook, klines,
                                           min_trades, min_volume).exc,
               value |-> find_active_markets(resp, markets, orderbook, klines,
                                             min_trades, min_volume).value]
    /\ UNCHANGED <<marketVars, addressVars, traderVars, storeVars, clientVars>>

\* analyze_market(symbol) for the i-th listed market.
CallAnalyzeMarket(i) ==
    /\ ret = NoCall
    /\ markets[i].symbol # ""
    /\ ret' = [op |-> "analyze_market", market |-> markets[i],
               exc |-> analyze_market(orderbook, markets[i].trades, klines).exc,
               value |-> analyze_market(orderbook, markets[i].trades, klines).value]
    /\ UNCHANGED <<marketVars, addressVars, traderVars, storeVars, clientVars>>

NextMarkets ==
    \/ \E symbol \in Symbols, ts \in MarketTradeLists : ListMarket(symbol, ts)
    \/ \E i \in 1..Len(markets) : CallAnalyzeMarket(i)
    \/ \E resp \in ResponseKinds \ {"no_keys"}, min_trades \in MinTradesValues,
          min_volume \in MinVolumeValues :
             CallFindActiveMarkets(resp, min_trades, min_volume)
    \/ Return

SpecMarkets == InitMarkets /\ [][NextMarkets]_vars

(***************************************************************************)
(* What the market-scan claims speak of, read off the listing the call     *)
(* fetched.  A market without a usable trade list counts 0 trades worth 0. *)
(***************************************************************************)
FindActiveCalled == ret.op = "find_active_markets"

\* The trades of the i-th listed market could be analysed.
Analysed(i) ==
    /\ ret.listing[i].trades # <<>>
    /\ \A k \in 1..Len(ret.listing[i].trades) : ret.listing[i].trades[k].wellFormed

TotalTradesOf(i) == IF Analysed(i) THEN Len(ret.listing[i].trades) ELSE 0

TotalValueOf(i) ==
    LET ts == ret.listing[i].trades
        RECURSIVE Upto(_)
        Upto(k) == IF k = 0 THEN 0 ELSE Upto(k - 1) + ts[k].quoteQuantity
    IN  IF Analysed(i) THEN Upto(Len(ts)) ELSE 0

\* The listed markets with a symbol that meet both thresholds.
Eligible ==
    {i \in 1..Len(ret.listing) :
        /\ ret.listing[i].symbol # ""
        /\ TotalTradesOf(i) >= ret.min_trades
        /\ TotalValueOf(i) >= ret.min_volume}

ListedAs(i) == <<ret.listing[i].symbol, TotalTradesOf(i), TotalValueOf(i)>>

ReturnedValue(k) ==
    IF ret.value[k].analysis.trade_analysis = EmptyResult THEN 0
    ELSE ret.value[k].analysis.trade_analysis.total_value

ReturnedAs(k) ==
    <<ret.value[k].symbol,
      IF ret.value[k].analysis.trade_analysis = EmptyResult THEN 0
      ELSE ret.value[k].analysis.trade_analysis.total_trades,
      ReturnedValue(k)>>

(***************************************************************************)
(* C14: find_active_markets returns exactly the listed markets with a      *)
(* symbol whose total_trades >= min_trades and total_value >= min_volume:  *)
(* each such market once per listing, and nothing else.                    *)
(***************************************************************************)
C14_ExactlyTheMarketsMeetingBoth ==
    (FindActiveCalled /\ ret.exc = "") =>
        /\ Len(ret.value) = Cardinality(Eligible)
        /\ \A i \in Eligible :
              Cardinality({k \in 1..Len(ret.value) : ReturnedAs(k) = ListedAs(i)})
              = Cardinality({j \in Eligible : ListedAs(j) = ListedAs(i)})
        /\ \A k \in 1..Len(ret.value) : \E i \in Eligible : ReturnedAs(k) = ListedAs(i)

\* One listed market met both thresholds and was returned, another missed
\* the volume threshold and was not.
C14_Witness ==
    /\ FindActiveCalled
    /\ Len(ret.listing) = 2 /\ Len(ret.value) = 1
    /\ ret.min_trades = 1 /\ ret.min_volume = 1000
    /\ \E i \in 1..2 : /\ ret.listing[i].symbol # ""
                       /\ TotalTradesOf(i) = 1 /\ TotalValueOf(i) = 500

(***************************************************************************)
(* C15: the returned list is ordered by non-increasing total_value, and    *)
(* returned markets of equal total_value stand in the order of the         *)
(* listing: a market's place is the number of returned markets of larger   *)
(* value, plus those of equal value listed before it.                      *)
(***************************************************************************)
C15_SortedByValueStable ==
    (FindActiveCalled /\ ret.exc = "" /\ Len(ret.value) = Cardinality(Eligible)) =>
        /\ \A k \in 1..Len(ret.value) - 1 : ReturnedValue(k) >= ReturnedValue(k + 1)
        /\ \A i \in Eligible :
              LET ahead == {j \in Eligible :
                               \/ TotalValueOf(j) > TotalValueOf(i)
                               \/ TotalValueOf(j) = TotalValueOf(i) /\ j < i}
              IN  ReturnedAs(Cardinality(ahead) + 1) = ListedAs(i)

\* Two different markets of equal value were returned.
C15_Witness ==
    /\ FindActiveCalled
    /\ Len(ret.value) = 2
    /\ ReturnedValue(1) = ReturnedValue(2)
    /\ ret.value[1].symbol # ret.value[2].symbol

(***************************************************************************)
(* C16: no returned market has an empty trade analysis (no trades fetched, *)
(* or a failed analysis), whatever min_trades and min_volume are.          *)
(***************************************************************************)
C16_EmptyAnalysisExcluded ==
    FindActiveCalled =>
        \A k \in 1..Len(ret.value) :
            ret.value[k].analysis.trade_analysis # EmptyResult

(***************************************************************************)
(* Part 4: src/src/analysis/trader_analysis.py, class TraderAnalysis.      *)
(*                                                                         *)
(* analyze_trades.  A record carries price, quantity and isBuyerMaker, and *)
(* possibly a profit of its own; a record lacking 'price' makes the        *)
(* DataFrame code raise.                                                   *)
(***************************************************************************)
Fill(p, q, m, hasProfit, profit) ==
    [wellFormed |-> TRUE, price |-> p, quantity |-> q, isBuyerMaker |-> m,
     hasProfit |-> hasProfit, profit |-> profit]

MalformedFill ==
    [wellFormed |-> FALSE, price |-> 0, quantity |-> 0, isBuyerMaker |-> FALSE,
     hasProfit |-> FALSE, profit |-> 0]

ExplicitProfits == {-3, 10}

FillKinds ==
    {Fill(10, q, m, FALSE, 0) : q \in {1, 2}, m \in BOOLEAN}
    \cup {Fill(10, q, m, TRUE, x) : q \in {1, 2}, m \in BOOLEAN, x \in ExplicitProfits}
    \cup {MalformedFill}

\* df['value'] = price * quantity; df['profit'] = value if not isBuyerMaker
\* else -value, assigned to every row whatever the column held before.
RowProfit(t) ==
    IF ~t.isBuyerMaker THEN t.price * t.quantity ELSE -(t.price * t.quantity)

ZeroFilledResult ==
    [total_trades |-> 0, win_rate |-> Ratio(0, 1), profit_loss |-> 0,
     avg_profit |-> Ratio(0, 1), max_profit |-> 0, max_loss |-> 0]

TraderAnalyzeTradesBody(ts) ==
    IF ts = <<>> THEN Returns(ZeroFilledResult)
    ELSE IF \E i \in 1..Len(ts) : ~ts[i].wellFormed THEN Raises("KeyError")
    ELSE
        LET profit == [i \in 1..Len(ts) |-> RowProfit(ts[i])]
            total_trades == Len(ts)
            profitable_trades == Cardinality({i \in 1..Len(ts) : profit[i] > 0})
        IN  Returns(
                [total_trades |-> total_trades,
                 win_rate |-> Ratio(profitable_trades, total_trades),
                 profit_loss |-> SumSeq(profit),
                 avg_profit |-> Ratio(SumSeq(profit), total_trades),
                 max_profit |-> MaxSeq(profit),
                 max_loss |-> MinSeq(profit)])

\* TraderAnalysis.analyze_trades; except Exception: return {}
TraderAnalyzeTrades(ts) ==
    LET body == TraderAnalyzeTradesBody(ts)
    IN  IF body.exc # "" THEN Returns(EmptyResult) ELSE body

AddFill(t) ==
    /\ ret = NoCall
    /\ Len(fills) < MaxFills
    /\ fills' = Append(fills, t)
    /\ UNCHANGED <<ret, df, addressVars, marketVars, storeVars, clientVars>>

CallTraderAnalyzeTrades ==
    /\ ret = NoCall
    /\ ret' = [op |-> "TraderAnalysis.analyze_trades",
               exc |-> TraderAnalyzeTrades(fills).exc,
               value |-> TraderAnalyzeTrades(fills).value]
    /\ UNCHANGED <<addressVars, marketVars, traderVars, storeVars, clientVars>>

NextFills ==
    \/ \E t \in FillKinds : AddFill(t)
    \/ CallTraderAnalyzeTrades
    \/ Return

SpecFills == Init /\ [][NextFills]_vars

(***************************************************************************)
(* C18: the profit of a record is +price*quantity when isBuyerMaker is     *)
(* false and -price*quantity when it is true, unless the record carries a  *)
(* profit of its own, which is kept: profit_loss, max_profit and max_loss  *)
(* of the result are the sum, maximum and minimum of these profits.        *)
(***************************************************************************)
C18_ExplicitProfitKept ==
    (ret.op = "TraderAnalysis.analyze_trades" /\ ret.value # EmptyResult /\ fills # <<>>)
    => LET claimed == [i \in 1..Len(fills) |->
                          IF fills[i].hasProfit THEN fills[i].profit
                          ELSE IF fills[i].isBuyerMaker
                               THEN -(fills[i].price * fills[i].quantity)
                               ELSE fills[i].price * fills[i].quantity]
       IN  /\ ret.value.profit_loss = SumSeq(claimed)
           /\ ret.value.max_profit = MaxSeq(claimed)
           /\ ret.value.max_loss = MinSeq(claimed)

(***************************************************************************)
(* get_top_traders: df.nlargest(top_n, metric)[['address', metric,         *)
(* 'total_trades']].  A DataFrame is the sequence of its rows, the index   *)
(* label of a row being its position; nlargest orders by the column,       *)
(* descending, first occurrences first among equal values (keep='first'),  *)
(* and keeps the first top_n rows.                                         *)
(***************************************************************************)
TraderRow(a, r, w, n) ==
    [address |-> a, return_rate |-> r, win_rate |-> w, total_trades |-> n]

TraderRows ==
    {TraderRow(a, r, w, n) : a \in {"A", "B"}, r \in {1, 2}, w \in {1, 2}, n \in {5, 6}}

Metrics == {"return_rate", "win_rate", "total_trades"}

DefaultTopN == 10

TopNValues == (0..2) \cup {DefaultTopN}

MetricOf(row, metric) ==
    CASE metric = "return_rate" -> row.return_rate
      [] metric = "win_rate" -> row.win_rate
      [] metric = "total_trades" -> row.total_trades

\* The rows with their index labels.
Indexed(rows) == [i \in 1..Len(rows) |-> [index |-> i, row |-> rows[i]]]

\* Stable descending order on the column.
RECURSIVE SortByMetric(_, _)
SortByMetric(xs, metric) ==
    IF xs = <<>> THEN <<>>
    ELSE
        LET x == xs[Len(xs)]
            sorted == SortByMetric(SubSeq(xs, 1, Len(xs) - 1), metric)
            key(y) == MetricOf(y.row, metric)
        IN  SelectSeq(sorted, LAMBDA y : key(y) >= key(x))
            \o <<x>>
            \o SelectSeq(sorted, LAMBDA y : key(y) < key(x))

TakeFirst_Last(xs, n) ==
    IF n <= 0 THEN <<>>
    ELSE IF n >= Len(xs) THEN xs
    ELSE SubSeq(xs, Len(xs) - n + 1, Len(xs))

\* The first n rows; none when n <= 0.
TakeFirst(xs, n) ==
    IF n <= 0 THEN <<>>
    ELSE IF n >= Len(xs) THEN xs
    ELSE SubSeq(xs, 1, n)

nlargest(rows, n, metric) == TakeFirst(SortByMetric(Indexed(rows), metric), n)

\* [['address', metric, 'total_trades']]
SelectColumns(x, metric) ==
    [index |-> x.index, address |-> x.row.address,
     metric |-> MetricOf(x.row, metric), total_trades |-> x.row.total_trades]

get_top_traders(rows, metric, top_n) ==
    LET top == nlargest(rows, top_n, metric)
    IN  [k \in 1..Len(top) |-> SelectColumns(top[k], metric)]

AddRow(row) ==
    /\ ret = NoCall
    /\ Len(df) < MaxRows
    /\ df' = Append(df, row)
    /\ UNCHANGED <<ret, fills, addressVars, marketVars, storeVars, clientVars>>

CallGetTopTraders(metric, top_n) ==
    /\ ret = NoCall
    /\ ret' = [op |-> "get_top_traders", metric |-> metric, top_n |-> top_n,
               exc |-> "", value |-> get_top_traders(df, metric, top_n)]
    /\ UNCHANGED <<addressVars, marketVars, traderVars, storeVars, clientVars>>

NextTop ==
    \/ \E row \in TraderRows : AddRow(row)
    \/ \E metric \in Metrics, top_n \in TopNValues : CallGetTopTraders(metric, top_n)
    \/ Return

SpecTop == Init /\ [][NextTop]_vars

(***************************************************************************)
(* C19: get_top_traders returns at most top_n rows; they are rows of the   *)
(* frame with the largest values of the metric (first occurrences when     *)
(* equal values compete for the last places), in non-increasing order of   *)
(* the metric, equal values in input order; each carries the address, the  *)
(* metric and the total_trades of its row and nothing else.                *)
(***************************************************************************)
C19_TopRowsInOrder ==
    ret.op = "get_top_traders" =>
        LET out == ret.value
            chosen == {out[k].index : k \in 1..Len(out)}
            m(i) == MetricOf(df[i], ret.metric)
        IN  /\ Len(out) <= ret.top_n
            /\ Len(out) = ret.top_n \/ Len(out) = Len(df)
            /\ chosen \subseteq 1..Len(df)
            /\ Cardinality(chosen) = Len(out)
            /\ \A i \in chosen, j \in (1..Len(df)) \ chosen :
                  m(i) > m(j) \/ (m(i) = m(j) /\ i < j)
            /\ \A k \in 1..Len(out) - 1 :
                  \/ out[k].metric > out[k + 1].metric
                  \/ out[k].metric = out[k + 1].metric /\ out[k].index < out[k + 1].index
            /\ \A k \in 1..Len(out) :
                  /\ DOMAIN out[k] = {"index", "address", "metric", "total_trades"}
                  /\ out[k].address = df[out[k].index].address
                  /\ out[k].metric = m(out[k].index)
                  /\ out[k].total_trades = df[out[k].index].total_trades

\* Two of three rows were asked for, and rows of equal value were returned
\* while a third of the same value was left out.
C19_Witness ==
    /\ ret.op = "get_top_traders"
    /\ ret.top_n = 2 /\ Len(df) = 3 /\ Len(ret.value) = 2
    /\ ret.value[1].metric = ret.value[2].metric
    /\ \E j \in 1..3 : /\ j \notin {ret.value[1].index, ret.value[2].index}
                       /\ MetricOf(df[j], ret.metric) = ret.value[1].metric

(***************************************************************************)
(* Part 5: src/src/data/data_store.py, class DataStore.  The state is the  *)
(* set of files under base_dir, a function from paths to contents; saved   *)
(* records, for every (data_type, identifier) pair, the data of the last   *)
(* save_data call that returned True.                                      *)
(***************************************************************************)
\* The directories _create_directories makes under base_dir.
Directories == {"markets", "traders", "trades", "klines"}

\* os.path.join(base_dir, data_type, f"{identifier}.json"), below base_dir.
_get_file_path(data_type, identifier) == data_type \o "/" \o identifier \o ".json"

\* The data a caller hands over: JSON values, a mapping with integer keys
\* (which json.dump writes as strings), and a value json.dump raises
\* TypeError on (a datetime, a numpy integer).
JsonValue(v) == [kind |-> "json", v |-> v]

IntKeyed == [kind |-> "int_keys", v |-> 1]

StrKeyed == [kind |-> "str_keys", v |-> 1]

NotSerialisable == [kind |-> "object", v |-> 0]

None == [kind |-> "None", v |-> 0]

DataValues == {JsonValue(1), JsonValue(2), IntKeyed, NotSerialisable}

\* What json.load yields of what json.dump wrote.
JsonRoundTrip(data) == IF data = IntKeyed THEN StrKeyed ELSE data

\* A file holding a whole document, and one cut short.
Document(data) == [whole |-> TRUE, data |-> JsonRoundTrip(data)]

Partial == [whole |-> FALSE, data |-> None]

Update(f, k, v) == [x \in DOMAIN f \cup {k} |-> IF x = k THEN v ELSE f[x]]

\* save_data: the files it leaves and the value it returns.  open(.., 'w')
\* raises when the directory is missing or the system refuses (io), and
\* truncates the file otherwise, before json.dump writes or raises.
save_data(fs, data_type, identifier, data, io) ==
    LET file_path == _get_file_path(data_type, identifier)
    IN  IF data_type \notin Directories \/ io = "open_fails"
        THEN [files |-> fs, value |-> FALSE]
        ELSE IF data = NotSerialisable
        THEN [files |-> Update(fs, file_path, Partial), value |-> FALSE]
        ELSE [files |-> Update(fs, file_path, Document(data)), value |-> TRUE]

\* load_data: None when the file is missing or json.load raises.
load_data(fs, data_type, identifier) ==
    LET file_path == _get_file_path(data_type, identifier)
    IN  IF file_path \notin DOMAIN fs THEN None
        ELSE IF ~fs[file_path].whole THEN None
        ELSE fs[file_path].data

IoOutcomes == {"ok", "open_fails"}

\* The keys save_data and load_data are called with directly.
GenericKeys == {<<"markets", "BTC">>, <<"klines", "BTC_1h">>, <<"orders", "BTC">>}

SaveData(data_type, identifier, data, io) ==
    /\ ret = NoCall
    /\ LET r == save_data(files, data_type, identifier, data, io)
       IN  /\ files' = r.files
           /\ saved' = IF r.value THEN Update(saved, <<data_type, identifier>>, data)
                       ELSE saved
           /\ ret' = [op |-> "save_data", data_type |-> data_type,
                      identifier |-> identifier, value |-> r.value]
    /\ UNCHANGED <<addressVars, marketVars, traderVars, clientVars>>

LoadData(data_type, identifier) ==
    /\ ret = NoCall
    /\ ret' = [op |-> "load_data", data_type |-> data_type,
               identifier |-> identifier,
               value |-> load_data(files, data_type, identifier)]
    /\ UNCHANGED <<addressVars, marketVars, traderVars, storeVars, clientVars>>

SaveMarketData(symbol, data, io) == SaveData("markets", symbol, data, io)

LoadMarketData(symbol) == LoadData("markets", symbol)

SaveTraderData(trader_id, data, io) == SaveData("traders", trader_id, data, io)

LoadTraderData(trader_id) == LoadData("traders", trader_id)

SaveTradeData(identifier, data, io) == SaveData("trades", identifier, data, io)

LoadTradeData(identifier) == LoadData("trades", identifier)

\* identifier = f"{symbol}_{interval}"
KlineIdentifier(symbol, interval) == symbol \o "_" \o interval

SaveKlineData(symbol, interval, data, io) ==
    SaveData("klines", KlineIdentifier(symbol, interval), data, io)

LoadKlineData(symbol, interval) == LoadData("klines", KlineIdentifier(symbol, interval))

NextStore ==
    \/ \E key \in GenericKeys, data \in DataValues, io \in IoOutcomes :
          SaveData(key[1], key[2], data, io)
    \/ \E key \in GenericKeys : LoadData(key[1], key[2])
    \/ \E data \in DataValues, io \in IoOutcomes : SaveMarketData("BTC", data, io)
    \/ LoadMarketData("BTC")
    \/ \E data \in DataValues, io \in IoOutcomes : SaveTraderData("0xA", data, io)
    \/ LoadTraderData("0xA")
    \/ \E data \in DataValues, io \in IoOutcomes : SaveTradeData("BTC", data, io)
    \/ LoadTradeData("BTC")
    \/ \E data \in DataValues, io \in IoOutcomes : SaveKlineData("BTC", "1h", data, io)
    \/ LoadKlineData("BTC", "1h")
    \/ Return

SpecStore == Init /\ [][NextStore]_vars

(***************************************************************************)
(* C20: load_data(type, id) returns the data of the most recent save_data  *)
(* call for that pair that returned True, and None when there was none;    *)
(* the market, trader, trade and kline wrappers likewise.                  *)
(***************************************************************************)
C20_LoadReturnsLastSuccessfulSave ==
    ret.op = "load_data" =>
        ret.value = IF <<ret.data_type, ret.identifier>> \in DOMAIN saved
                    THEN saved[<<ret.data_type, ret.identifier>>]
                    ELSE None

(***************************************************************************)
(* Part 6: the public trade feed of one market, as get_trades returns it   *)
(* (newest trade first), analysed by MarketAnalysis._analyze_trades.       *)
(***************************************************************************)
MaxFeed == 3

FeedPrices == {998, 999, 1000, 1001, 1002}

FeedTradeKinds ==
    {MarketTrade(p, 1, FALSE) : p \in FeedPrices} \cup {MalformedMarketTrade}

\* The response of get_trades holds one more (older) trade.
AddFeedTrade(t) ==
    /\ ret = NoCall
    /\ Len(feed) < MaxFeed
    /\ feed' = Append(feed, t)
    /\ UNCHANGED <<ret, client, addressVars, marketVars, traderVars, storeVars>>

CallAnalyzeMarketTrades ==
    /\ ret = NoCall
    /\ ret' = [op |-> "_analyze_trades", exc |-> _analyze_trades(feed).exc,
               value |-> _analyze_trades(feed).value]
    /\ UNCHANGED <<clientVars, addressVars, marketVars, traderVars, storeVars>>

NextFeed ==
    \/ \E t \in FeedTradeKinds : AddFeedTrade(t)
    \/ CallAnalyzeMarketTrades
    \/ Return

SpecFeed == Init /\ [][NextFeed]_vars

FeedAnalysed == ret.op = "_analyze_trades" /\ ret.value # EmptyResult

Newest == feed[1].price

Oldest == feed[Len(feed)].price

\* C21: price_trend of _analyze_trades compares the newest trade (first of
\* the list) with the oldest (last of the list): it is 1 when the newest
\* price exceeds the oldest by more than 0.1 percent, -1 when it is lower by
\* more than 0.1 percent, and 0 otherwise, in particular for a single trade.
C21_PriceTrendNewestAgainstOldest ==
    FeedAnalysed =>
        /\ (ret.value.price_trend = 1) <=> (1000 * Newest > 1001 * Oldest)
        /\ (ret.value.price_trend = -1) <=> (1000 * Newest < 999 * Oldest)
        /\ ret.value.price_trend \in {-1, 0, 1}
        /\ (Len(feed) = 1 => ret.value.price_trend = 0)

\* A feed that rose from 1000 to 1002 is reported as rising.
C21_Witness ==
    /\ FeedAnalysed
    /\ Len(feed) = 3
    /\ Newest = 1002
    /\ Oldest = 1000
    /\ ret.value.price_trend = 1

(***************************************************************************)
(* Part 7: further properties of AddressAnalysis.analyze_trades.           *)
(***************************************************************************)
\* C23: the sharpe_ratio of a result of analyze_trades is 0.0 whenever the
\* address has fewer than 2 trades, whatever the profit of its one trade.
C23_SharpeZeroBelowTwoTrades ==
    (HasResult /\ Cardinality(Mine(ret.address)) < 2) =>
        ret.value.sharpe_ratio = SharpeZero

\* One trade with a profit of 20: its Sharpe ratio is reported as 0.
C23_Witness ==
    /\ HasResult
    /\ Cardinality(Mine(ret.address)) = 1
    /\ \E i \in Mine(ret.address) : P(i) = 20
    /\ ret.value.sharpe_ratio = SharpeZero

(***************************************************************************)
(* Trades of several symbols, and trades that carry no symbol ("" stands   *)
(* for a missing, None or empty symbol, all skipped by `if not symbol`).   *)
(***************************************************************************)
TradedSymbols == {"", "BTC", "ETH"}

SymbolTradeKinds ==
    {Trade(a, "num", p, "num", s) : a \in Addresses, p \in {-5, 10}, s \in TradedSymbols}

NextSymbols ==
    \/ \E t \in SymbolTradeKinds : FetchTrade(t)
    \/ \E address \in Addresses : CallAnalyzeTrades(address)
    \/ Return

SpecSymbols == Init /\ [][NextSymbols]_vars

\* The positions of a's trades that carry symbol s.
MineOf(a, s) == {i \in Mine(a) : trades[i].symbol = s}

\* The symbols a traded.
SymbolsOf(a) == {trades[i].symbol : i \in Mine(a)} \ {""}

\* The summed profit of a's trades in s among the first k records.
RECURSIVE ProfitIn(_, _, _)
ProfitIn(a, s, k) ==
    IF k = 0 THEN 0
    ELSE ProfitIn(a, s, k - 1) + (IF k \in MineOf(a, s) THEN P(k) ELSE 0)

\* The position at which a first traded s.
FirstTradeIn(a, s) == CHOOSE i \in MineOf(a, s) : \A j \in MineOf(a, s) : i <= j

\* C24: in symbol_distribution most_traded_symbol has the greatest trade
\* count and most_profitable_symbol the greatest summed profit among the
\* symbols the address traded, each chosen on its own; among symbols that
\* tie, the one met first in the trade list is chosen; trades without a
\* symbol are not counted (with none that carries one the mapping is empty).
C24_MostTradedAndMostProfitable ==
    HasResult =>
        LET a == ret.address
            d == ret.value.symbol_distribution
            n == Len(trades)
        IN  /\ (d = EmptyResult) <=> (SymbolsOf(a) = {})
            /\ d # EmptyResult =>
                /\ d.most_traded_symbol \in SymbolsOf(a)
                /\ d.most_profitable_symbol \in SymbolsOf(a)
                /\ \A s \in SymbolsOf(a) \ {d.most_traded_symbol} :
                      LET mine == Cardinality(MineOf(a, d.most_traded_symbol))
                          other == Cardinality(MineOf(a, s))
                      IN  \/ other < mine
                          \/ /\ other = mine
                             /\ FirstTradeIn(a, d.most_traded_symbol) < FirstTradeIn(a, s)
                /\ \A s \in SymbolsOf(a) \ {d.most_profitable_symbol} :
                      LET mine == ProfitIn(a, d.most_profitable_symbol, n)
                          other == ProfitIn(a, s, n)
                      IN  \/ other < mine
                          \/ /\ other = mine
                             /\ FirstTradeIn(a, d.most_profitable_symbol) < FirstTradeIn(a, s)

\* Two losing BTC trades and one winning ETH trade: BTC is the most traded
\* symbol, ETH the most profitable.
C24_Witness ==
    /\ HasResult
    /\ ret.value.symbol_distribution # EmptyResult
    /\ ret.value.symbol_distribution.most_traded_symbol = "BTC"
    /\ ret.value.symbol_distribution.most_profitable_symbol = "ETH"
    /\ Cardinality(MineOf(ret.address, "BTC")) = 2

\* Two symbols traded once each with the same profit: the first met is both.
C24_TieWitness ==
    /\ HasResult
    /\ Cardinality(MineOf(ret.address, "BTC")) = 1
    /\ Cardinality(MineOf(ret.address, "ETH")) = 1
    /\ MineOf(ret.address, "") # {}
    /\ ProfitIn(ret.address, "BTC", Len(trades)) = ProfitIn(ret.address, "ETH", Len(trades))
    /\ ret.value.symbol_distribution.most_traded_symbol = "ETH"
    /\ ret.value.symbol_distribution.most_profitable_symbol = "ETH"

\* The records of the list that are trades of address a, in list order.
OnlyTradesOf(a) == SelectSeq(trades, LAMBDA t : t.isMapping /\ t.address = a)

\* C27: the result of analyze_trades(trades, A) depends only on the
\* sub-sequence of the trades whose address is A: it is the result the call
\* gives on that sub-sequence alone, so two lists of trade records that
\* differ in the trades of other addresses (inserted, removed or changed,
\* malformed ones included) give the same result for A.
C27_OnlyOwnTradesMatter ==
    (AnalyzeCalled /\ AllMappings) =>
        LET alone == analyze_trades(OnlyTradesOf(ret.address), ret.address)
        IN  /\ ret.exc = alone.exc
            /\ ret.value = alone.value

\* A result for A from a list in which B has a trade with a malformed profit.
C27_Witness ==
    /\ HasResult
    /\ ret.address = "A"
    /\ Len(OnlyTradesOf("A")) = 2
    /\ \E i \in Mine("B") : trades[i].profitTag = "str"

(***************************************************************************)
(* Part 8: what analyze_market hands to find_active_markets.               *)
(***************************************************************************)
AnalyzeMarketCalled == ret.op = "analyze_market"

AnalysisKeys == {"market_depth", "trade_analysis", "price_analysis"}

\* The listed markets that carry a symbol.
WithSymbol == {i \in 1..Len(ret.listing) : ret.listing[i].symbol # ""}

\* C28: whenever the client's fetches return, analyze_market returns a
\* mapping with the three keys market_depth, trade_analysis and
\* price_analysis, also when each of the three analyses is empty; it is
\* never the empty mapping, so find_active_markets skips no market for an
\* empty analysis: with thresholds of 0 every listed market that has a
\* symbol is returned, each with its three-key analysis.
C28_AnalysisAlwaysHasThreeKeys ==
    /\ AnalyzeMarketCalled =>
          /\ ret.exc = ""
          /\ ret.value # EmptyResult
          /\ DOMAIN ret.value = AnalysisKeys
    /\ (FindActiveCalled /\ ret.min_trades = 0 /\ ret.min_volume = 0) =>
          /\ Len(ret.value) = Cardinality(WithSymbol)
          /\ \A k \in 1..Len(ret.value) : DOMAIN ret.value[k].analysis = AnalysisKeys

\* A market without order book, trades or klines: three keys, three empty
\* analyses.
C28_Witness ==
    /\ AnalyzeMarketCalled
    /\ DOMAIN ret.value = AnalysisKeys
    /\ ret.value.market_depth = EmptyResult
    /\ ret.value.trade_analysis = EmptyResult
    /\ ret.value.price_analysis = EmptyResult

(***************************************************************************)
(* Part 9: the keys of the DataStore.  Kline data is stored under the      *)
(* identifier f"{symbol}_{interval}"; market symbols of the exchange       *)
(* contain the underscore themselves.                                      *)
(***************************************************************************)
KlineSymbols == {"BTC", "BTC_USDC"}

KlineIntervals == {"1h", "USDC_1h"}

StoredValues == {JsonValue(1), JsonValue(2)}

NextKeys ==
    \/ \E key \in GenericKeys, data \in StoredValues :
          SaveData(key[1], key[2], data, "ok")
    \/ \E key \in GenericKeys : LoadData(key[1], key[2])
    \/ \E symbol \in KlineSymbols, interval \in KlineIntervals, data \in StoredValues :
          SaveKlineData(symbol, interval, data, "ok")
    \/ \E symbol \in KlineSymbols, interval \in KlineIntervals :
          LoadKlineData(symbol, interval)
    \/ Return

SpecKeys == Init /\ [][NextKeys]_vars

\* The step is a save_data call under the key (data_type, identifier).
SaveStep(data_type, identifier) ==
    /\ ret = NoCall
    /\ ret'.op = "save_data"
    /\ ret'.data_type = data_type
    /\ ret'.identifier = identifier

\* The step is a call save_kline_data(symbol, interval, ..).
SaveKlineStep(symbol, interval) == SaveStep("klines", KlineIdentifier(symbol, interval))

\* A load under (data_type, identifier) returns after the step what it
\* returned before.
LoadUnchanged(data_type, identifier) ==
    load_data(files', data_type, identifier) = load_data(files, data_type, identifier)

\* C29: a save under one key never changes what a load returns for another
\* key: a save_data under (data_type, identifier) leaves the load of every
\* other (data_type, identifier) pair as it was, and a save_kline_data under
\* (symbol, interval) leaves the load_kline_data of every other (symbol,
\* interval) pair as it was.
C29_SaveLeavesOtherKeysAlone ==
    [][/\ \A key \in GenericKeys, other \in GenericKeys :
            (key # other /\ SaveStep(key[1], key[2]))
                => LoadUnchanged(other[1], other[2])
       /\ \A symbol \in KlineSymbols, interval \in KlineIntervals,
            other_symbol \in KlineSymbols, other_interval \in KlineIntervals :
            (/\ <<symbol, interval>> # <<other_symbol, other_interval>>
             /\ SaveKlineStep(symbol, interval))
                => LoadUnchanged("klines", KlineIdentifier(other_symbol, other_interval))]_vars

\* The part of C29 that speaks of save_data and load_data themselves holds.
C29_GenericKeysIsolated ==
    [][\A key \in GenericKeys, other \in GenericKeys :
          (key # other /\ SaveStep(key[1], key[2]))
              => LoadUnchanged(other[1], other[2])]_vars

(***************************************************************************)
(* Part 10: src/src/api/backpack_client.py, the requests of one            *)
(* BackpackClient.  client.now is the clock in milliseconds,               *)
(* last_request_time the field of rate_limit, last_sent the time of the    *)
(* latest HTTP request and gap the time between the latest two.  What the  *)
(* exchange answers is the concern of the other parts.                     *)
(***************************************************************************)
MaxTicks == 6

\* The clock advances in steps of 10 ms.
TickMs == 10

\* 60 / requests_per_minute seconds, with requests_per_minute = 2000.
MinIntervalMs == 60000 \div 2000

HourMs == 60 * 60 * 1000

DayMs == 24 * 60 * 60 * 1000

EightHoursMs == 8 * 60 * 60 * 1000

\* start_time / end_time left at None.
NoTime == -1

\* _check_rate_limit: sleep for what is missing of the interval since
\* last_request_time, then set last_request_time to the clock.
_check_rate_limit(c) ==
    LET time_since_last_request == c.now - c.last_request_time
        missing == MinIntervalMs - time_since_last_request
        wait_time == IF missing > 0 THEN missing ELSE 0
    IN  [c EXCEPT !.now = c.now + wait_time,
                  !.last_request_time = c.now + wait_time]

\* session.get(..): an HTTP request leaves at the time the clock shows.
SendRequest(c) ==
    [c EXCEPT !.last_sent = c.now,
              !.gap = IF c.last_sent = NoRequest THEN NoRequest
                      ELSE c.now - c.last_sent]

\* The startTime and endTime parameters of get_klines, lines 119-149.
KlinesWindow(current_time, start_time, end_time) ==
    LET s1 == IF start_time = NoTime THEN current_time - DayMs ELSE start_time
        e1 == IF end_time = NoTime THEN current_time ELSE end_time
        s2 == IF s1 > current_time THEN current_time - DayMs ELSE s1
        e2 == IF e1 > current_time THEN current_time ELSE e1
        s3 == IF s2 >= e2 THEN e2 - DayMs ELSE s2
        s4 == IF s3 > current_time THEN current_time - DayMs ELSE s3
        e4 == IF e2 > current_time THEN current_time ELSE e2
    IN  [startTime |-> s4 - EightHoursMs, endTime |-> e4 - EightHoursMs]

\* The times a caller passes: none, two days ago, an hour ago, in an hour.
TimeArgs(now) == {NoTime, now - 2 * DayMs, now - HourMs, now + HourMs}

\* The stretch of time that is looked at.
ClockRuns == client.now < StartMs + MaxTicks * TickMs

Tick ==
    /\ ret = NoCall
    /\ ClockRuns
    /\ client' = [client EXCEPT !.now = client.now + TickMs]
    /\ UNCHANGED <<ret, feed, addressVars, marketVars, traderVars, storeVars>>

CallGetMarkets ==
    /\ ret = NoCall
    /\ ClockRuns
    /\ client' = SendRequest(_check_rate_limit(client))
    /\ ret' = [op |-> "get_markets"]
    /\ UNCHANGED <<feed, addressVars, marketVars, traderVars, storeVars>>

CallGetTrades ==
    /\ ret = NoCall
    /\ ClockRuns
    /\ client' = SendRequest(_check_rate_limit(client))
    /\ ret' = [op |-> "get_trades"]
    /\ UNCHANGED <<feed, addressVars, marketVars, traderVars, storeVars>>

CallGetOrderbook ==
    /\ ret = NoCall
    /\ ClockRuns
    /\ client' = SendRequest(_check_rate_limit(client))
    /\ ret' = [op |-> "get_orderbook"]
    /\ UNCHANGED <<feed, addressVars, marketVars, traderVars, storeVars>>

\* get_klines computes its parameters and sends; it does not call
\* _check_rate_limit.
CallGetKlines(start_time, end_time) ==
    /\ ret = NoCall
    /\ client' = SendRequest(client)
    /\ ret' = [op |-> "get_klines", current_time |-> client.now,
               start_time |-> start_time, end_time |-> end_time,
               params |-> KlinesWindow(client.now, start_time, end_time)]
    /\ UNCHANGED <<feed, addressVars, marketVars, traderVars, storeVars>>

NextClient ==
    \/ Tick
    \/ CallGetMarkets
    \/ CallGetTrades
    \/ CallGetOrderbook
    \/ \E start_time \in TimeArgs(client.now), end_time \in TimeArgs(client.now) :
          CallGetKlines(start_time, end_time)
    \/ Return

SpecClient == Init /\ [][NextClient]_vars

GetKlinesCalled == ret.op = "get_klines"

\* C25: get_klines called without start_time and end_time requests the
\* window of the 24 hours that end at the current time: endTime is the
\* current time and startTime is 24 hours before it.
C25_DefaultWindowEndsNow ==
    (GetKlinesCalled /\ ret.start_time = NoTime /\ ret.end_time = NoTime) =>
        /\ ret.params.endTime = ret.current_time
        /\ ret.params.startTime = ret.current_time - DayMs

\* What the code does request: a window of 24 hours, whatever the arguments
\* that are not both given, and never one reaching into the last 8 hours.
C25_WindowAsComputed ==
    GetKlinesCalled =>
        /\ ret.params.endTime <= ret.current_time - EightHoursMs
        /\ ret.params.startTime < ret.params.endTime
        /\ (ret.start_time = NoTime /\ ret.end_time = NoTime) =>
              ret.params.endTime - ret.params.startTime = DayMs

\* C30: every method that sends an HTTP request runs _check_rate_limit
\* first: any two consecutive requests of a client are at least
\* 60 / requests_per_minute seconds apart, and last_request_time is the
\* time of the latest request.
C30_RequestsAreSpaced ==
    /\ client.gap # NoRequest => client.gap >= MinIntervalMs
    /\ client.last_sent # NoRequest => client.last_request_time = client.last_sent

\* The three methods that do run the check leave last_request_time at the
\* time of their request.
C30_CheckedMethodsUpdate ==
    ret.op \in {"get_markets", "get_trades", "get_orderbook"} =>
        client.last_request_time = client.last_sent

====
